---- MODULE Spec2Model ----
(***************************************************************************)
(* State-machine model of the monitoring core of the eBay monitor backend: *)
(* the change-detection step (monitoringService.checkProduct), the         *)
(* per-tenant monitoring cycle (monitoringService.checkProductsForUser)    *)
(* and the per-tenant scheduler registry (cronService).                    *)
(*                                                                         *)
(* Prices are whole currency units.  For every old/new pair and every      *)
(* percentage used below, the IEEE-754 expression ((new - old) / old) * 100*)
(* of the source compares with the threshold exactly as the integer        *)
(* cross-multiplication used here does.                                    *)
(***************************************************************************)
EXTENDS Integers, Sequences, FiniteSets, Bags, TLC

VARIABLES
    products,      \* Product collection: product id -> persisted document
    settings,      \* Settings collection: tenant -> settings document (exists = FALSE: none)
    newAlerts,     \* Alert documents created by the latest operation, in creation order
    newHistory,    \* PriceHistory documents created by the latest operation, in creation order
    now,           \* Date.now(), in clock ticks
    run,           \* the latest checkProduct call: product, document before, snapshot fetched
    unavailStreak, \* per product: supplier_unavailable alerts since the last successful supplier fetch
    cycle,         \* the latest checkProductsForUser call: tenant, documents before, per-product decisions
    userCronJobs,  \* cronService's registry Map: key object -> index of its timer in timers
    timers,        \* every node-cron task created so far: tenant, expression, running
    pendingCron,   \* createUserCron calls suspended at `await ensureUserSettings(userId)`
    initPhase,     \* initializeCronJobs: "idle", "find" (awaiting User.find) or "loop"
    initQueue,     \* initializeCronJobs: keys of the users its loop has still to schedule
    pure,          \* the latest call of a helper function: its name, arguments and result
    requests,      \* updateSettings requests in flight: tenant key, body, position
    response,      \* the latest HTTP response of updateSettings
    retry,         \* the retryWithBackoff call under way: parameters, loop counter, attempts, waits
    rateLimiters,  \* supplierService's rateLimiters Map: key -> lastRequest (0: never stamped)
    waiters,       \* waitForRateLimit calls suspended in setTimeout: key, instant of wake-up
    permits,       \* per key: the instants at which waitForRateLimit returned, in order
    cachedToken,   \* getEbayToken's module variable cachedToken (0: null)
    tokenExpiry,   \* getEbayToken's module variable tokenExpiry, in seconds (0: null)
    exchanges,     \* getEbayToken calls suspended at `await axios.post(...)`
    tokenCall,     \* the latest getEbayToken call that ended: how, when, with which token
    scrape,        \* the puppeteerScraper operation under way or just ended
    openPages,     \* number of browser pages opened by the scraper and not closed
    browserInstance, \* puppeteerScraper's module variable browserInstance (0: null)
    browsers,      \* every browser launched by getBrowser so far
    launches,      \* getBrowser calls suspended at `await puppeteer.launch(...)`
    browserOps,    \* getBrowser and closeBrowser calls made, closeBrowser calls suspended, returned
    catalog,       \* Product documents by (userId, ebayItemId), in order of creation; _id = position
    storeReqs,     \* addProduct, importStoreListings and updateProduct calls in flight
    storeLog,      \* the latest of those calls that ended, or the latest step that wrote
    storeCalls,    \* number of those calls begun
    monitorRuns,   \* checkProductsForUser calls in flight: origin, users and documents left, position
    lastTrigger    \* per timer, and for the startup check: the clock tick of its latest run (0: none)

monitorVars == <<products, settings, newAlerts, newHistory, now, run, unavailStreak, cycle>>

cronVars == <<userCronJobs, timers, pendingCron, initPhase, initQueue>>

rateVars == <<rateLimiters, waiters, permits>>

tokenVars == <<cachedToken, tokenExpiry, exchanges, tokenCall>>

browserVars == <<browserInstance, browsers, launches, browserOps>>

scraperVars == <<scrape, openPages, browserVars>>

storeVars == <<catalog, storeReqs, storeLog, storeCalls>>

runVars == <<monitorRuns, lastTrigger>>

libVars == <<pure, retry, rateVars, tokenVars, scraperVars, storeVars, runVars>>

httpVars == <<requests, response>>

vars == <<products, settings, newAlerts, newHistory, now, run, unavailStreak, cycle,
          userCronJobs, timers, pendingCron, initPhase, initQueue, pure, requests, response, retry,
          rateLimiters, waiters, permits, cachedToken, tokenExpiry, exchanges, tokenCall,
          scrape, openPages, browserInstance, browsers, launches, browserOps,
          catalog, storeReqs, storeLog, storeCalls, monitorRuns, lastTrigger>>

-----------------------------------------------------------------------------
(* Data model *)

Tenants == {"u1", "u2"}

StockStates == {"in_stock", "out_of_stock", "low_stock", "unknown"}

AlertTypeFlags ==
    {"priceIncrease", "priceDecrease", "outOfStock", "supplierUnavailable", "lowStock", "competitorPrice"}

Abs(x) == IF x < 0 THEN -x ELSE x

\* Settings schema defaults.
DefaultMonitoringFrequency == 30
DefaultPriceChangeThresholdSetting == 5

allAlertTypes(b) == [f \in AlertTypeFlags |-> b]

settingsDoc(freq, threshold, flags) ==
    [exists |-> TRUE, monitoringFrequency |-> freq, priceChangeThreshold |-> threshold, alertTypes |-> flags]

\* Settings.create({ userId }): every field takes its schema default.
defaultSettings == settingsDoc(DefaultMonitoringFrequency, DefaultPriceChangeThresholdSetting, allAlertTypes(TRUE))

noSettings == [defaultSettings EXCEPT !.exists = FALSE]

\* A Product document (the fields the monitoring core reads or writes).
\* lastCheckedAt = 0 stands for an absent timestamp.  The fields checkProduct only writes
\* (title, images, competitorListings, competitorStats, profit, profitMargin) are left out.
productDoc(userId, isActive, ebayPrice, stockStatus, hasSupplierUrl, supplierPrice, supplierStockStatus, lastCheckedAt) ==
    [userId |-> userId, isActive |-> isActive, ebayPrice |-> ebayPrice, stockStatus |-> stockStatus,
     hasSupplierUrl |-> hasSupplierUrl, supplierPrice |-> supplierPrice,
     supplierStockStatus |-> supplierStockStatus, lastCheckedAt |-> lastCheckedAt]

-----------------------------------------------------------------------------
(* Upstream snapshots: what the three fetches of one checkProduct call return *)

fetchFailed == [ok |-> FALSE, price |-> 0, stock |-> "unknown"]
fetched(price, stock) == [ok |-> TRUE, price |-> price, stock |-> stock]

\* fetchCompetitorInsights returns null on any failure or when no listing is found.
noInsights == [ok |-> FALSE, lowestPrice |-> 0]
insights(lowestPrice) == [ok |-> TRUE, lowestPrice |-> lowestPrice]

snapshot(e, s, c) == [ebay |-> e, supplier |-> s, competitor |-> c]

-----------------------------------------------------------------------------
(* cronService: timers and the registry *)

\* The objects a caller may pass as one tenant's id.  The registry is a JavaScript Map,
\* which compares object keys by identity: two ObjectId instances holding the same
\* tenant id (two refs here) are two keys, the same instance passed twice is one.
ObjectRefs == {"a", "b"}

CronKeys == [user : Tenants, ref : ObjectRefs]

userOrder == <<"u1", "u2">>

\* Mutant for C13: a full hour is still scheduled in minutes.
frequencyToCronLateHours(frequencyMinutes) ==
    LET minutes == IF frequencyMinutes > 15 THEN frequencyMinutes ELSE 15
        hours == minutes \div 60
    IN  IF minutes <= 60 THEN [every |-> "minutes", step |-> minutes]
        ELSE IF hours < 24 THEN [every |-> "hours", step |-> hours]
        ELSE [every |-> "day", step |-> 1]

\* frequencyToCron: the schedule as (unit, step) instead of the expression's text
frequencyToCron(frequencyMinutes) ==
    LET minutes == IF frequencyMinutes > 15 THEN frequencyMinutes ELSE 15
        hours == minutes \div 60
    IN  IF minutes < 60 THEN [every |-> "minutes", step |-> minutes]
        ELSE IF hours < 24 THEN [every |-> "hours", step |-> hours]
        ELSE [every |-> "day", step |-> 1]

\* cron.schedule(cronExpression, callback, { scheduled: false })
cronJob(u, cronExpression) == [user |-> u, cronExpression |-> cronExpression, running |-> FALSE]

\* cronJob.stop() on every timer whose index is in stopped
stopTimers(ts, stopped) ==
    [i \in 1..Len(ts) |-> IF i \in stopped THEN [ts[i] EXCEPT !.running = FALSE] ELSE ts[i]]

\* userCronJobs.has(key): 0 stands for "no entry"
hasCron(jobs, key) == jobs[key] # 0

\* No scheduler activity: the state of cronService when the module is loaded.
cronIdle ==
    /\ userCronJobs = [key \in CronKeys |-> 0]
    /\ timers = << >>
    /\ pendingCron = << >>
    /\ initPhase = "idle"
    /\ initQueue = << >>

noCall == [fn |-> "none"]

noOutcome == [ok |-> FALSE, value |-> "undefined"]

noRetry == [status |-> "idle", maxRetries |-> 0, baseDelay |-> 0, attempt |-> 0,
            invoked |-> 0, outcomes |-> << >>, waits |-> << >>, result |-> noOutcome]

SourceKeys == {"aliexpress", "amazon", "alibaba", "generic"}

noTokenCall == [how |-> "none", calledAt |-> 0, at |-> 0, token |-> 0, cachedAtCall |-> 0,
                expiryAtCall |-> 0, exchanged |-> 0, expiresIn |-> 0,
                appId |-> "set", certId |-> "set", issued |-> 0]

\* No rate limiter entry exists and nobody waits.
rateIdle ==
    /\ rateLimiters = [k \in SourceKeys |-> 0]
    /\ waiters = << >>
    /\ permits = [k \in SourceKeys |-> << >>]

\* No token is cached and no exchange is under way.
tokenIdle ==
    /\ cachedToken = 0
    /\ tokenExpiry = 0
    /\ exchanges = << >>
    /\ tokenCall = noTokenCall

noScrape == [op |-> "none", status |-> "idle", hasPage |-> FALSE, pageNum |-> 0,
             visited |-> << >>, allItems |-> << >>, outcome |-> "none", opened |-> 0]

\* No scraper operation has run and the browser has no page.
scraperIdle ==
    /\ scrape = noScrape /\ openPages = 0
    /\ browserInstance = 0 /\ browsers = << >> /\ launches = << >>
    /\ browserOps = [calls |-> 0, closing |-> 0, closed |-> 0]

noStoreLog == [kind |-> "none", outcome |-> "none", grew |-> FALSE]

\* No product of the catalogue model exists and no request is in flight.
storeIdle ==
    catalog = << >> /\ storeReqs = EmptyBag /\ storeLog = noStoreLog /\ storeCalls = 0

\* No monitoring cycle is under way and no timer has fired.
runIdle ==
    monitorRuns = {} /\ lastTrigger = [k \in Tenants \cup {"startup"} |-> 0]

\* No helper has been called.
libIdle ==
    /\ pure = noCall /\ retry = noRetry
    /\ rateIdle /\ tokenIdle /\ scraperIdle /\ storeIdle /\ runIdle

noBody == [hasFrequency |-> FALSE, monitoringFrequency |-> 0]

noResponse == [status |-> 0, user |-> "u1", body |-> noBody]

\* No request has been received.
httpIdle == requests = << >> /\ response = noResponse

-----------------------------------------------------------------------------
(* monitoringService.createAlert: the Alert document (source is the origin   *)
(* named in the alert's message; stock alerts carry no prices)               *)

createAlert(productId, type, source, oldPrice, newPrice, severity) ==
    [productId |-> productId, type |-> type, source |-> source,
     oldPrice |-> oldPrice, newPrice |-> newPrice, severity |-> severity]

historyEntry(productId, source, price, stock) ==
    [productId |-> productId, source |-> source, price |-> price, stock |-> stock]

EnvPriceChangeThreshold == 0      \* process.env.PRICE_CHANGE_THRESHOLD, unset
FallbackPriceChangeThreshold == 5
CompetitorAlertPercent == 3       \* COMPETITOR_PRICE_ALERT_PERCENT, unset

\* settings?.priceChangeThreshold || process.env.PRICE_CHANGE_THRESHOLD || 5
priceChangeThreshold(s) ==
    IF s.priceChangeThreshold # 0 THEN s.priceChangeThreshold
    ELSE IF EnvPriceChangeThreshold # 0 THEN EnvPriceChangeThreshold
    ELSE FallbackPriceChangeThreshold

\* Math.abs(((new - old) / old) * 100) >= pct, for old > 0
percentAtLeast(diff, base, pct) == Abs(diff) * 100 >= pct * base
\* Mutant for C3: the severity test includes the boundary.
percentAbove10AtLeast(diff, base) == Abs(diff) * 100 >= 10 * base

\* Math.abs(percentChange) > 10
percentAbove10(diff, base) == Abs(diff) * 100 > 10 * base

\* Mutant for C6: the enable flag is not consulted when the alert is created.
shouldAlertAlways(s, flag) == TRUE

\* !settings || !settings.alertTypes || settings.alertTypes[flag] !== false
shouldAlert(s, flag) == s.alertTypes[flag] # FALSE

\* eBay price block
ebayPriceAlerts(pid, oldEbayPrice, price, s) ==
    IF price # oldEbayPrice /\ oldEbayPrice > 0
       /\ percentAtLeast(price - oldEbayPrice, oldEbayPrice, priceChangeThreshold(s))
       /\ shouldAlert(s, IF price > oldEbayPrice THEN "priceIncrease" ELSE "priceDecrease")
    THEN << createAlert(pid, IF price > oldEbayPrice THEN "price_increase" ELSE "price_decrease",
                        "ebay", oldEbayPrice, price,
                        IF percentAbove10(price - oldEbayPrice, oldEbayPrice) THEN "high" ELSE "medium") >>
    ELSE << >>

\* eBay stock block
ebayStockAlerts(pid, oldEbayStock, stock, s) ==
    IF stock # oldEbayStock /\ shouldAlert(s, "outOfStock")
    THEN IF stock = "out_of_stock"
         THEN << createAlert(pid, "out_of_stock", "ebay", 0, 0, "high") >>
         ELSE IF oldEbayStock = "out_of_stock"
         THEN << createAlert(pid, "back_in_stock", "ebay", 0, 0, "medium") >>
         ELSE << >>
    ELSE << >>

\* supplier price block
supplierPriceAlerts(pid, oldSupplierPrice, price, s) ==
    IF price # oldSupplierPrice /\ oldSupplierPrice > 0
       /\ percentAtLeast(price - oldSupplierPrice, oldSupplierPrice, priceChangeThreshold(s))
       /\ shouldAlert(s, IF price > oldSupplierPrice THEN "priceIncrease" ELSE "priceDecrease")
    THEN << createAlert(pid, IF price > oldSupplierPrice THEN "price_increase" ELSE "price_decrease",
                        "supplier", oldSupplierPrice, price,
                        IF percentAbove10(price - oldSupplierPrice, oldSupplierPrice) THEN "high" ELSE "medium") >>
    ELSE << >>

\* Mutant for C4: the supplier block reuses the eBay block's severity.
supplierStockAlertsHigh(pid, oldSupplierStock, stock, s) ==
    IF stock # oldSupplierStock /\ s.alertTypes["outOfStock"]
    THEN IF stock = "out_of_stock"
         THEN << createAlert(pid, "out_of_stock", "supplier", 0, 0, "high") >>
         ELSE IF oldSupplierStock = "out_of_stock"
         THEN << createAlert(pid, "back_in_stock", "supplier", 0, 0, "medium") >>
         ELSE << >>
    ELSE << >>

\* supplier stock block
supplierStockAlerts(pid, oldSupplierStock, stock, s) ==
    IF stock # oldSupplierStock /\ shouldAlert(s, "outOfStock")
    THEN IF stock = "out_of_stock"
         THEN << createAlert(pid, "out_of_stock", "supplier", 0, 0, "critical") >>
         ELSE IF oldSupplierStock = "out_of_stock"
         THEN << createAlert(pid, "back_in_stock", "supplier", 0, 0, "medium") >>
         ELSE << >>
    ELSE << >>

\* Mutant for C9: the alert is raised on every failure, whatever the stored state.
supplierUnavailableAlertsEveryTime(pid, oldSupplierStock, s) ==
    IF s.alertTypes["supplierUnavailable"]
    THEN << createAlert(pid, "supplier_unavailable", "supplier", 0, 0, "high") >>
    ELSE << >>

\* catch block of the supplier fetch
supplierUnavailableAlerts(pid, oldSupplierStock, s) ==
    IF shouldAlert(s, "supplierUnavailable") /\ oldSupplierStock # "unknown"
    THEN << createAlert(pid, "supplier_unavailable", "supplier", 0, 0, "high") >>
    ELSE << >>

\* Mutant for C8: the difference must exceed the alert percentage.
competitorAlertsStrict(pid, ebayPrice, lowestPrice, s) ==
    IF lowestPrice # 0 /\ ebayPrice # 0
       /\ s.alertTypes["competitorPrice"]
       /\ ebayPrice - lowestPrice > 0
       /\ (ebayPrice - lowestPrice) * 100 > CompetitorAlertPercent * ebayPrice
    THEN << createAlert(pid, "competitor_price", "competitor", ebayPrice, lowestPrice,
                        IF (ebayPrice - lowestPrice) * 100 > 10 * ebayPrice THEN "high" ELSE "medium") >>
    ELSE << >>

\* competitor block; ebayPrice is product.ebayPrice as the eBay block left it
competitorAlerts(pid, ebayPrice, lowestPrice, s) ==
    IF lowestPrice # 0 /\ ebayPrice # 0
       /\ shouldAlert(s, "competitorPrice")
       /\ ebayPrice - lowestPrice > 0
       /\ (ebayPrice - lowestPrice) * 100 >= CompetitorAlertPercent * ebayPrice
    THEN << createAlert(pid, "competitor_price", "competitor", ebayPrice, lowestPrice,
                        IF (ebayPrice - lowestPrice) * 100 > 10 * ebayPrice THEN "high" ELSE "medium") >>
    ELSE << >>

competitorHistory(pid, ebayPrice, lowestPrice) ==
    IF lowestPrice # 0 /\ ebayPrice # 0
    THEN << historyEntry(pid, "competitor", lowestPrice, "in_stock") >>
    ELSE << >>

(***************************************************************************)
(* monitoringService.checkProduct(product, settings) at time t, with snap  *)
(* the results of its three fetches.  Returns the product document as      *)
(* saved and the Alert and PriceHistory documents created, in order.       *)
(***************************************************************************)
checkProduct(pid, product, s, snap, t) ==
    LET oldEbayPrice == product.ebayPrice
        oldEbayStock == product.stockStatus
        oldSupplierPrice == product.supplierPrice
        oldSupplierStock == product.supplierStockStatus
        \* eBay
        ebayData == snap.ebay
        a1 == IF ebayData.ok
              THEN ebayPriceAlerts(pid, oldEbayPrice, ebayData.price, s)
                   \o ebayStockAlerts(pid, oldEbayStock, ebayData.stock, s)
              ELSE << >>
        p1 == IF ebayData.ok
              THEN [product EXCEPT !.ebayPrice = ebayData.price, !.stockStatus = ebayData.stock]
              ELSE product
        h1 == IF ebayData.ok
              THEN << historyEntry(pid, "ebay", ebayData.price, ebayData.stock) >>
              ELSE << >>
        \* supplier
        supplierData == snap.supplier
        a2 == IF ~product.hasSupplierUrl THEN << >>
              ELSE IF supplierData.ok
              THEN supplierPriceAlerts(pid, oldSupplierPrice, supplierData.price, s)
                   \o supplierStockAlerts(pid, oldSupplierStock, supplierData.stock, s)
              ELSE supplierUnavailableAlerts(pid, oldSupplierStock, s)
        p2 == IF ~product.hasSupplierUrl THEN p1
              ELSE IF supplierData.ok
              THEN [p1 EXCEPT !.supplierPrice = supplierData.price,
                              !.supplierStockStatus = supplierData.stock]
              ELSE [p1 EXCEPT !.supplierStockStatus = "unknown"]
        h2 == IF product.hasSupplierUrl /\ supplierData.ok
              THEN << historyEntry(pid, "supplier", supplierData.price, supplierData.stock) >>
              ELSE << >>
        \* competitor
        comp == snap.competitor
        a3 == IF comp.ok THEN competitorAlerts(pid, p2.ebayPrice, comp.lowestPrice, s) ELSE << >>
        h3 == IF comp.ok THEN competitorHistory(pid, p2.ebayPrice, comp.lowestPrice) ELSE << >>
        hasChanges == ebayData.ok \/ product.hasSupplierUrl \/ comp.ok
    IN  [product |-> IF hasChanges THEN [p2 EXCEPT !.lastCheckedAt = t] ELSE product,
         alerts  |-> a1 \o a2 \o a3,
         history |-> h1 \o h2 \o h3,
         saved   |-> hasChanges]

RECURSIVE Reverse(_)
Reverse(seq) == IF seq = << >> THEN << >> ELSE Reverse(Tail(seq)) \o << Head(seq) >>

\* Mutant for C12: the sources are handled competitor first, marketplace last.
checkProductOutcomeReversed(pid, product, s, input, t) ==
    LET r == checkProduct(pid, product, s, input.snap, t)
        thrown == input.saveFails /\ r.saved
    IN  [success |-> ~thrown,
         product |-> IF thrown THEN product ELSE r.product,
         alerts  |-> Reverse(r.alerts),
         history |-> Reverse(r.history)]

\* checkProduct as its caller sees it.  When product.save() rejects, the outer catch
\* returns { success: false }: the document is not persisted, while the Alert and
\* PriceHistory documents created before the save stay.
checkProductOutcome(pid, product, s, input, t) ==
    LET r == checkProduct(pid, product, s, input.snap, t)
        thrown == input.saveFails /\ r.saved
    IN  [success |-> ~thrown,
         product |-> IF thrown THEN product ELSE r.product,
         alerts  |-> r.alerts,
         history |-> r.history]

\* Ghost bookkeeping: supplier_unavailable alerts in the current streak of failed supplier fetches.
streakAfter(streak, product, snap, alerts) ==
    IF product.hasSupplierUrl /\ snap.supplier.ok THEN 0
    ELSE streak + Cardinality({i \in 1..Len(alerts) : alerts[i].type = "supplier_unavailable"})

-----------------------------------------------------------------------------
(* Inputs of the checkProduct specification *)

EbayPrices == {100, 104, 106, 110, 116}
SupplierPrices == {0, 100, 104, 106, 110, 116}
FetchedStocks == {"in_stock", "out_of_stock", "low_stock"}
CompetitorPrices == {0, 90, 97, 98, 104}

\* The eBay fetch varies; the supplier and the competitor sources are steady.
EbaySnapshots ==
    { snapshot(e, fetched(100, "in_stock"), noInsights) :
        e \in {fetchFailed} \cup {fetched(p, "in_stock") : p \in EbayPrices}
               \cup {fetched(100, st) : st \in FetchedStocks} }

\* The supplier fetch varies.
SupplierSnapshots ==
    { snapshot(fetched(100, "in_stock"), s, noInsights) :
        s \in {fetchFailed} \cup {fetched(p, "in_stock") : p \in SupplierPrices}
               \cup {fetched(100, st) : st \in FetchedStocks} }

\* Competitor insights arrive, against a failed or successful eBay fetch.
CompetitorSnapshots ==
    { snapshot(e, fetched(100, "in_stock"), insights(c)) :
        e \in {fetchFailed, fetched(100, "in_stock"), fetched(116, "in_stock")},
        c \in CompetitorPrices }

Snapshots ==
    EbaySnapshots \cup SupplierSnapshots \cup CompetitorSnapshots
    \cup {snapshot(fetchFailed, fetchFailed, noInsights)}

oneOff(flag) == [allAlertTypes(TRUE) EXCEPT ![flag] = FALSE]

SettingsChoices ==
    {settingsDoc(30, t, allAlertTypes(TRUE)) : t \in {0, 5}}
    \cup {settingsDoc(30, 5, oneOff(f)) : f \in {"priceIncrease", "outOfStock", "supplierUnavailable"}}
    \cup {settingsDoc(30, 5, allAlertTypes(FALSE)), noSettings}

InitialProducts ==
    { productDoc("u1", TRUE, 0, "unknown", FALSE, 0, "unknown", 1),          \* imported, unpriced, no supplier
      productDoc("u1", TRUE, 100, "in_stock", TRUE, 100, "in_stock", 1) }    \* added with a supplier

noRun == [called |-> FALSE, pid |-> "p1", old |-> productDoc("u1", TRUE, 0, "unknown", FALSE, 0, "unknown", 0),
          snap |-> snapshot(fetchFailed, fetchFailed, noInsights), repeat |-> FALSE]

noCycle == [called |-> FALSE, user |-> "u1", start |-> 0, before |-> << >>, evalAt |-> << >>, checked |-> {},
            failed |-> {}, inputs |-> << >>]

Init ==
    /\ \E p \in InitialProducts : products = [pid \in {"p1"} |-> p]
    /\ \E s \in SettingsChoices : settings = [u \in Tenants |-> IF u = "u1" THEN s ELSE noSettings]
    /\ newAlerts = << >>
    /\ newHistory = << >>
    /\ now = 2
    /\ run = noRun
    /\ unavailStreak = [pid \in {"p1"} |-> 0]
    /\ cycle = noCycle
    /\ cronIdle
    /\ libIdle
    /\ httpIdle

(***************************************************************************)
(* One call checkProduct(product) with no settings argument: the tenant's  *)
(* settings are loaded, and created with defaults when there are none.     *)
(***************************************************************************)
CheckProduct ==
    \E pid \in DOMAIN products, snap \in Snapshots :
        LET product == products[pid]
            s == IF settings[product.userId].exists THEN settings[product.userId] ELSE defaultSettings
            r == checkProduct(pid, product, s, snap, now)
        IN  /\ settings' = [settings EXCEPT ![product.userId] = s]
            /\ products' = [products EXCEPT ![pid] = r.product]
            /\ newAlerts' = r.alerts
            /\ newHistory' = r.history
            /\ run' = [called |-> TRUE, pid |-> pid, old |-> product, snap |-> snap,
                       repeat |-> run.called /\ run.pid = pid /\ run.snap = snap]
            /\ unavailStreak' = [unavailStreak EXCEPT ![pid] = streakAfter(@, product, snap, r.alerts)]
            /\ UNCHANGED <<now, cycle>>
            /\ UNCHANGED <<cronVars, libVars, httpVars>>

Next == CheckProduct

Spec == Init /\ [][Next]_vars

-----------------------------------------------------------------------------
(* Reading the latest checkProduct call *)

PriceAlertTypes == {"price_increase", "price_decrease"}
StockAlertTypes == {"out_of_stock", "back_in_stock"}
PriceSources == {"ebay", "supplier"}
Sources == {"ebay", "supplier", "competitor"}

\* The settings the latest call ran under.
runSettings == settings[run.old.userId]

\* Positions in newAlerts of the alerts of the given types raised for a source.
alertsAt(types, src) == {i \in 1..Len(newAlerts) : newAlerts[i].type \in types /\ newAlerts[i].source = src}
historyAt(src) == {i \in 1..Len(newHistory) : newHistory[i].source = src}

\* Whether the latest call fetched the source, and what it got.
fetchSucceeded(src) ==
    CASE src = "ebay" -> run.snap.ebay.ok
      [] src = "supplier" -> run.old.hasSupplierUrl /\ run.snap.supplier.ok
      [] src = "competitor" -> run.snap.competitor.ok
fetchedData(src) == IF src = "ebay" THEN run.snap.ebay ELSE run.snap.supplier
oldPriceOf(src) == IF src = "ebay" THEN run.old.ebayPrice ELSE run.old.supplierPrice
oldStockOf(src) == IF src = "ebay" THEN run.old.stockStatus ELSE run.old.supplierStockStatus

\* The enable flag that gates an alert type (back_in_stock has no flag of its own:
\* it is gated by outOfStock).
flagOf(type) ==
    CASE type = "price_increase" -> "priceIncrease"
      [] type = "price_decrease" -> "priceDecrease"
      [] type \in StockAlertTypes -> "outOfStock"
      [] type = "supplier_unavailable" -> "supplierUnavailable"
      [] type = "competitor_price" -> "competitorPrice"

-----------------------------------------------------------------------------
\* C2: for a configured threshold T in 0..100 (0 included) and each of the eBay and
\* supplier sources, with the alert type of the change's direction enabled, checkProduct
\* creates exactly one price alert for the source when old > 0 and
\* |(new - old) / old * 100| >= T, and none otherwise.
C2_PriceAlertAtConfiguredThreshold ==
    run.called =>
        \A src \in PriceSources :
            LET old == oldPriceOf(src)
                new == fetchedData(src).price
                T == runSettings.priceChangeThreshold
                enabled == \/ new > old /\ runSettings.alertTypes["priceIncrease"]
                           \/ new < old /\ runSettings.alertTypes["priceDecrease"]
            IN  (fetchSucceeded(src) /\ enabled) =>
                    Cardinality(alertsAt(PriceAlertTypes, src))
                        = IF old > 0 /\ Abs(new - old) * 100 >= T * old THEN 1 ELSE 0

\* C3: every price alert created by checkProduct carries the old and the fetched price of
\* its source, has type price_increase when new > old and price_decrease when new < old,
\* and severity high when |percent change| > 10 and medium otherwise (exactly 10% is medium).
C3_PriceAlertTypeAndSeverity ==
    run.called =>
        \A i \in 1..Len(newAlerts) :
            LET a == newAlerts[i] IN
            a.type \in PriceAlertTypes =>
                /\ a.source \in PriceSources
                /\ fetchSucceeded(a.source)
                /\ a.oldPrice = oldPriceOf(a.source)
                /\ a.newPrice = fetchedData(a.source).price
                /\ a.oldPrice > 0
                /\ (a.type = "price_increase") = (a.newPrice > a.oldPrice)
                /\ (a.type = "price_decrease") = (a.newPrice < a.oldPrice)
                /\ a.severity = IF Abs(a.newPrice - a.oldPrice) * 100 > 10 * a.oldPrice
                                THEN "high" ELSE "medium"

\* C3 witness: one call raised a price alert for a change of exactly 10% (medium) and
\* another price alert for a change above 10% (high).
C3_Witness ==
    /\ run.called
    /\ \E i, j \in 1..Len(newAlerts) :
        /\ newAlerts[i].type \in PriceAlertTypes
        /\ Abs(newAlerts[i].newPrice - newAlerts[i].oldPrice) * 10 = newAlerts[i].oldPrice
        /\ newAlerts[i].severity = "medium"
        /\ newAlerts[j].type \in PriceAlertTypes
        /\ Abs(newAlerts[j].newPrice - newAlerts[j].oldPrice) * 10 > newAlerts[j].oldPrice
        /\ newAlerts[j].severity = "high"

\* The stock alerts the transition old -> new of a source should raise: (type, severity) pairs.
expectedStockAlerts(src, old, new) ==
    IF new = old THEN {}
    ELSE IF new = "out_of_stock"
    THEN {<<"out_of_stock", IF src = "ebay" THEN "high" ELSE "critical">>}
    ELSE IF old = "out_of_stock" THEN {<<"back_in_stock", "medium">>}
    ELSE {}

stockAlertsRaised(src) ==
    {<<newAlerts[i].type, newAlerts[i].severity>> : i \in alertsAt(StockAlertTypes, src)}

\* C4 (as claimed): whenever the fetched stock state of a source differs from the stored
\* one, a transition into out_of_stock creates exactly one out_of_stock alert (high for
\* eBay, critical for the supplier), a transition out of out_of_stock exactly one
\* back_in_stock alert (medium), and any other transition no stock alert.
C4_StockTransitionAlerts ==
    run.called =>
        \A src \in PriceSources :
            fetchSucceeded(src) =>
                /\ stockAlertsRaised(src) = expectedStockAlerts(src, oldStockOf(src), fetchedData(src).stock)
                /\ Cardinality(alertsAt(StockAlertTypes, src)) = Cardinality(stockAlertsRaised(src))

\* C4 (amended): the same, for a tenant whose outOfStock alert type is enabled; with
\* outOfStock disabled no out_of_stock and no back_in_stock alert is created.
C4_StockTransitionAlertsWhenEnabled ==
    run.called =>
        \A src \in PriceSources :
            /\ Cardinality(alertsAt(StockAlertTypes, src)) = Cardinality(stockAlertsRaised(src))
            /\ stockAlertsRaised(src) =
                   IF fetchSucceeded(src) /\ runSettings.alertTypes["outOfStock"]
                   THEN expectedStockAlerts(src, oldStockOf(src), fetchedData(src).stock)
                   ELSE {}

\* C4 witness: with outOfStock enabled the supplier went from out_of_stock to low_stock
\* (one medium back_in_stock alert) while the eBay stock state did not change (no alert).
C4_Witness ==
    /\ run.called
    /\ runSettings.alertTypes["outOfStock"]
    /\ run.old.hasSupplierUrl
    /\ run.old.supplierStockStatus = "out_of_stock"
    /\ run.snap.supplier.ok /\ run.snap.supplier.stock = "low_stock"
    /\ stockAlertsRaised("supplier") = {<<"back_in_stock", "medium">>}
    /\ stockAlertsRaised("ebay") = {}

\* C5: a second checkProduct in a row on the same product, with the marketplace, supplier
\* and competitor snapshots identical to those of the first, creates no Alert.  (The
\* history entries of a run are the subject of C7.)
C5_SecondRunCreatesNoAlert ==
    (run.called /\ run.repeat) => newAlerts = << >>

\* Alerts of the types gated by flag f, in creation order.
RECURSIVE gatedBy(_, _)
gatedBy(alerts, f) ==
    IF alerts = << >> THEN << >>
    ELSE (IF flagOf(Head(alerts).type) = f THEN <<Head(alerts)>> ELSE << >>) \o gatedBy(Tail(alerts), f)

C7_OneHistoryEntryPerSuccessfulFetch ==
    run.called =>
        \A src \in Sources :
            Cardinality(historyAt(src)) = IF fetchSucceeded(src) THEN 1 ELSE 0

\* The marketplace price the competitor step compares against.
marketplacePrice == products[run.pid].ebayPrice

competitorAlertsRaised == {newAlerts[i].severity : i \in alertsAt({"competitor_price"}, "competitor")}

expectedCompetitorAlerts(lowest, price) ==
    IF lowest < price /\ (price - lowest) * 100 >= CompetitorAlertPercent * price
    THEN {IF (price - lowest) * 100 > 10 * price THEN "high" ELSE "medium"}
    ELSE {}

unavailableAlerts == alertsAt({"supplier_unavailable"}, "supplier")

\* C9 (as claimed): when the supplier fetch of a product with a supplier URL fails, one
\* supplier_unavailable alert (high) is created exactly when the stored supplier stock
\* state was not unknown, and the state is stored as unknown; so a run of consecutive
\* failing checks creates at most one.
C9_SupplierUnavailableOnce ==
    /\ (run.called /\ run.old.hasSupplierUrl /\ ~run.snap.supplier.ok) =>
          /\ Cardinality(unavailableAlerts)
                 = IF run.old.supplierStockStatus # "unknown" THEN 1 ELSE 0
          /\ \A i \in unavailableAlerts : newAlerts[i].severity = "high"
          /\ products[run.pid].supplierStockStatus = "unknown"
    /\ \A pid \in DOMAIN unavailStreak : unavailStreak[pid] <= 1

\* C9 (amended): the same, for a tenant whose supplierUnavailable alert type is enabled;
\* with it disabled no alert is created and the state is still stored as unknown.
C9_SupplierUnavailableOnceWhenEnabled ==
    /\ run.called =>
          /\ Cardinality(unavailableAlerts)
                 = IF run.old.hasSupplierUrl /\ ~run.snap.supplier.ok
                      /\ runSettings.alertTypes["supplierUnavailable"]
                      /\ run.old.supplierStockStatus # "unknown"
                   THEN 1 ELSE 0
          /\ \A i \in unavailableAlerts : newAlerts[i].severity = "high"
          /\ (run.old.hasSupplierUrl /\ ~run.snap.supplier.ok) =>
                 products[run.pid].supplierStockStatus = "unknown"
    /\ \A pid \in DOMAIN unavailStreak : unavailStreak[pid] <= 1

\* C9 witness: a second failing check in a row: the first raised the alert, this one
\* finds the state unknown and raises none.
C9_Witness ==
    /\ run.called /\ run.repeat
    /\ runSettings.alertTypes["supplierUnavailable"]
    /\ run.old.hasSupplierUrl /\ ~run.snap.supplier.ok
    /\ run.old.supplierStockStatus = "unknown"
    /\ unavailStreak[run.pid] = 1
    /\ unavailableAlerts = {}

-----------------------------------------------------------------------------
(* The monitoring cycle of one tenant *)

MaxTime == 3                     \* the clock stops here

TickMs == 15 * 60 * 1000         \* one clock tick is a quarter of an hour

\* The order in which Product.find returns the documents.
productOrder == <<"p1", "p2", "p3">>

\* (userSettings.monitoringFrequency || 30) * 60 * 1000
frequencyMs(s) ==
    (IF s.monitoringFrequency # 0 THEN s.monitoringFrequency ELSE DefaultMonitoringFrequency) * 60 * 1000

\* Mutant for C10: a product is due only after more than the frequency has passed.
isDueStrictly(product, t, s) ==
    LET lastChecked == product.lastCheckedAt
        timeSinceLastCheck == (t - lastChecked) * TickMs
    IN  timeSinceLastCheck > frequencyMs(s) \/ lastChecked = 0

\* timeSinceLastCheck >= frequencyMs || lastChecked === 0, at Date.now() = t
isDue(product, t, s) ==
    LET lastChecked == product.lastCheckedAt
        timeSinceLastCheck == (t - lastChecked) * TickMs
    IN  timeSinceLastCheck >= frequencyMs(s) \/ lastChecked = 0

\* Product.find({ userId, isActive: true })
activeProductsOf(prods, u) ==
    SelectSeq(productOrder, LAMBDA pid : pid \in DOMAIN prods /\ prods[pid].userId = u /\ prods[pid].isActive)

(***************************************************************************)
(* The product loop of checkProductsForUser over the loaded documents.     *)
(* inputs[pid] is what the fetches for pid return and the ticks the check  *)
(* and the delay after it take; st carries the collections, the clock and  *)
(* the bookkeeping of the cycle.                                           *)
(***************************************************************************)
\* Mutant for C11: the loop gives up at the first product whose check fails.
RECURSIVE productLoopAborting(_, _, _, _)
productLoopAborting(loaded, s, inputs, st) ==
    IF loaded = << >> \/ st.failed # {} THEN st
    ELSE LET pid == Head(loaded)
             product == st.products[pid]
         IN  IF isDue(product, st.t, s)
             THEN LET done == st.t + inputs[pid].elapsed
                      r == checkProductOutcome(pid, product, s, inputs[pid], done)
                  IN  productLoopAborting(Tail(loaded), s, inputs,
                          [products |-> [st.products EXCEPT ![pid] = r.product],
                           alerts   |-> st.alerts \o r.alerts,
                           history  |-> st.history \o r.history,
                           streak   |-> [st.streak EXCEPT ![pid] = streakAfter(@, product, inputs[pid].snap, r.alerts)],
                           checked  |-> st.checked \cup {pid},
                           failed   |-> IF r.success THEN st.failed ELSE st.failed \cup {pid},
                           evalAt   |-> [st.evalAt EXCEPT ![pid] = st.t],
                           t        |-> done])
             ELSE productLoopAborting(Tail(loaded), s, inputs, [st EXCEPT !.evalAt[pid] = st.t])

RECURSIVE productLoop(_, _, _, _)
productLoop(loaded, s, inputs, st) ==
    IF loaded = << >> THEN st
    ELSE LET pid == Head(loaded)
             product == st.products[pid]
         IN  IF isDue(product, st.t, s)
             THEN LET done == st.t + inputs[pid].elapsed
                      r == checkProductOutcome(pid, product, s, inputs[pid], done)
                  IN  productLoop(Tail(loaded), s, inputs,
                          [products |-> [st.products EXCEPT ![pid] = r.product],
                           alerts   |-> st.alerts \o r.alerts,
                           history  |-> st.history \o r.history,
                           streak   |-> [st.streak EXCEPT ![pid] = streakAfter(@, product, inputs[pid].snap, r.alerts)],
                           checked  |-> st.checked \cup {pid},
                           failed   |-> IF r.success THEN st.failed ELSE st.failed \cup {pid},
                           evalAt   |-> [st.evalAt EXCEPT ![pid] = st.t],
                           t        |-> done])
             ELSE productLoop(Tail(loaded), s, inputs, [st EXCEPT !.evalAt[pid] = st.t])

\* checkProductsForUser(user, settings) started at time t.
checkProductsForUser(u, s, prods, streak, t, inputs) ==
    productLoop(activeProductsOf(prods, u), s, inputs,
        [products |-> prods, alerts |-> << >>, history |-> << >>, streak |-> streak,
         checked |-> {}, failed |-> {}, evalAt |-> [pid \in DOMAIN prods |-> 0], t |-> t])

CycleSnapshots ==
    { snapshot(fetchFailed, fetchFailed, noInsights),
      snapshot(fetched(106, "in_stock"), fetched(100, "in_stock"), noInsights),
      snapshot(fetchFailed, fetched(104, "in_stock"), insights(90)) }

\* What one check meets: the fetches' results, the ticks it takes, and whether
\* product.save() rejects.
CycleInputs ==
    [snap : CycleSnapshots, elapsed : {0}, saveFails : {FALSE}]
    \cup { [snap |-> snapshot(fetched(106, "in_stock"), fetched(100, "in_stock"), noInsights),
            elapsed |-> 1, saveFails |-> FALSE],
          [snap |-> snapshot(fetched(106, "in_stock"), fetched(100, "in_stock"), noInsights),
            elapsed |-> 0, saveFails |-> TRUE] }

idleInput == [snap |-> snapshot(fetchFailed, fetchFailed, noInsights), elapsed |-> 0, saveFails |-> FALSE]

CycleInit ==
    /\ \E last1 \in {0, 1}, active2 \in BOOLEAN :
          products = [pid \in {"p1", "p2", "p3"} |->
              CASE pid = "p1" -> productDoc("u1", TRUE, 100, "in_stock", FALSE, 0, "unknown", last1)
                [] pid = "p2" -> productDoc("u1", active2, 100, "in_stock", TRUE, 100, "in_stock", 1)
                [] pid = "p3" -> productDoc("u2", TRUE, 100, "in_stock", FALSE, 0, "unknown", 1)]
    /\ \E f1 \in {15, 30} :
          settings = [u \in Tenants |-> IF u = "u1" THEN settingsDoc(f1, 5, allAlertTypes(TRUE)) ELSE noSettings]
    /\ newAlerts = << >>
    /\ newHistory = << >>
    /\ now = 1
    /\ run = noRun
    /\ unavailStreak = [pid \in {"p1", "p2", "p3"} |-> 0]
    /\ cycle = noCycle
    /\ timers = [i \in 1..Len(userOrder) |->
                    [cronJob(userOrder[i], frequencyToCron(settings[userOrder[i]].monitoringFrequency))
                        EXCEPT !.running = TRUE]]
    /\ userCronJobs = [key \in CronKeys |->
                          IF key.ref = "a" THEN CHOOSE i \in 1..Len(userOrder) : userOrder[i] = key.user ELSE 0]
    /\ pendingCron = << >>
    /\ initPhase = "idle"
    /\ initQueue = << >>
    /\ libIdle
    /\ httpIdle

(***************************************************************************)
(* A started timer of the tenant fires: the callback loads the user,       *)
(* ensures settings (created with defaults when there are none) and runs   *)
(* the cycle.                                                              *)
(***************************************************************************)
CronTrigger ==
    \E u \in {timers[i].user : i \in {j \in 1..Len(timers) : timers[j].running}} :
      \E inputs \in [{pid \in DOMAIN products : products[pid].userId = u /\ products[pid].isActive}
                        -> CycleInputs] :
        LET s == IF settings[u].exists THEN settings[u] ELSE defaultSettings
        IN  \E end \in {checkProductsForUser(u, s, products, unavailStreak, now, inputs)} :
            /\ end.t <= MaxTime
            /\ \A pid \in DOMAIN inputs : pid \notin end.checked => inputs[pid] = idleInput
            /\ settings' = [settings EXCEPT ![u] = s]
            /\ products' = end.products
            /\ newAlerts' = end.alerts
            /\ newHistory' = end.history
            /\ unavailStreak' = end.streak
            /\ now' = end.t
            /\ cycle' = [called |-> TRUE, user |-> u, start |-> now, before |-> products,
                         evalAt |-> end.evalAt, checked |-> end.checked,
                         failed |-> end.failed, inputs |-> inputs]
            /\ UNCHANGED run
            /\ UNCHANGED <<cronVars, libVars, httpVars>>

\* Time passes.
Tick ==
    /\ now < MaxTime
    /\ now' = now + 1
    /\ UNCHANGED <<products, settings, newAlerts, newHistory, run, unavailStreak, cycle>>
    /\ UNCHANGED <<cronVars, libVars, httpVars>>

CycleNext == CronTrigger \/ Tick

CycleSpec == CycleInit /\ [][CycleNext]_vars

\* C10: on each trigger of checkProductsForUser for a tenant, a product is run through
\* checkProduct exactly when it is the tenant's, active, and either carries no
\* lastCheckedAt or its time since lastCheckedAt is at least the tenant's frequency;
\* every other product keeps its stored state and gets no alert and no history entry.
C10_DueProductsCheckedOthersUntouched ==
    cycle.called =>
        \A pid \in DOMAIN cycle.before :
            LET b == cycle.before[pid]
                minutesSince == (cycle.evalAt[pid] - b.lastCheckedAt) * 15
            IN  /\ (pid \in cycle.checked) =
                       (/\ b.userId = cycle.user
                        /\ b.isActive
                        /\ (b.lastCheckedAt = 0 \/ minutesSince >= settings[cycle.user].monitoringFrequency))
                /\ pid \notin cycle.checked =>
                       /\ products[pid] = b
                       /\ \A i \in 1..Len(newAlerts) : newAlerts[i].productId # pid
                       /\ \A i \in 1..Len(newHistory) : newHistory[i].productId # pid

\* C10 witness: in one cycle of u1, p1 was due exactly at the frequency and was checked
\* (its price was refreshed), while p2, active but checked more recently, was skipped.
C10_Witness ==
    /\ cycle.called /\ cycle.user = "u1"
    /\ cycle.checked = {"p1"}
    /\ cycle.before["p1"].lastCheckedAt # 0
    /\ (cycle.evalAt["p1"] - cycle.before["p1"].lastCheckedAt) * 15 = settings["u1"].monitoringFrequency
    /\ products["p1"].ebayPrice = 106
    /\ cycle.before["p2"].isActive
    /\ products["p2"] = cycle.before["p2"]

\* Reading the latest cycle
orderIndex(pid) == CHOOSE i \in 1..Len(productOrder) : productOrder[i] = pid
cycleHistory(pid, src) == {i \in 1..Len(newHistory) : newHistory[i].productId = pid /\ newHistory[i].source = src}
someFetchFailed(pid) ==
    LET snap == cycle.inputs[pid].snap
    IN  ~snap.ebay.ok \/ (cycle.before[pid].hasSupplierUrl /\ ~snap.supplier.ok) \/ ~snap.competitor.ok
\* pid was already due when the cycle started (and so is due when its turn comes)
dueAtStart(pid) ==
    LET b == cycle.before[pid]
    IN  /\ b.userId = cycle.user
        /\ b.isActive
        /\ (b.lastCheckedAt = 0
              \/ (cycle.start - b.lastCheckedAt) * 15 >= settings[cycle.user].monitoringFrequency)

\* C11: no failure aborts the tenant's cycle.  Within one check, a failed marketplace
\* fetch still lets the supplier step run (its price is stored and its history entry
\* written) and the competitor step run (its history entry written); within the cycle,
\* every product due at the start of the cycle that comes after a product whose fetches
\* failed or whose check returned failure is still checked.
C11_FailuresNeverAbortTheCycle ==
    cycle.called =>
        /\ \A pid \in cycle.checked :
              LET b == cycle.before[pid]
                  snap == cycle.inputs[pid].snap
              IN  ~snap.ebay.ok =>
                     /\ (b.hasSupplierUrl /\ snap.supplier.ok) =>
                            /\ Cardinality(cycleHistory(pid, "supplier")) = 1
                            /\ pid \notin cycle.failed => products[pid].supplierPrice = snap.supplier.price
                     /\ (snap.competitor.ok /\ snap.competitor.lowestPrice # 0 /\ b.ebayPrice # 0) =>
                            Cardinality(cycleHistory(pid, "competitor")) = 1
        /\ \A q \in cycle.checked, pid \in DOMAIN cycle.before :
              (/\ q \in cycle.failed \/ someFetchFailed(q)
               /\ orderIndex(q) < orderIndex(pid)
               /\ dueAtStart(pid)) => pid \in cycle.checked

\* C11 witness: in one cycle of u1 the check of p1 returned failure (its save was
\* rejected), and p2, due after it, was still checked: its marketplace fetch failed,
\* yet its supplier price was stored and its competitor entry written.
C11_Witness ==
    /\ cycle.called /\ cycle.user = "u1"
    /\ "p1" \in cycle.failed
    /\ "p2" \in cycle.checked
    /\ ~cycle.inputs["p2"].snap.ebay.ok
    /\ products["p2"].supplierPrice = 104
    /\ cycleHistory("p2", "competitor") # {}

sourceRank(src) == CASE src = "ebay" -> 1 [] src = "supplier" -> 2 [] src = "competitor" -> 3

\* docs, in creation order, go product by product in loading order and, within one
\* product, marketplace before supplier before competitor.
inProcessingOrder(docs) ==
    \A i, j \in 1..Len(docs) :
        i < j =>
            \/ orderIndex(docs[i].productId) < orderIndex(docs[j].productId)
            \/ /\ docs[i].productId = docs[j].productId
               /\ sourceRank(docs[i].source) <= sourceRank(docs[j].source)

\* C12: within one cycle the products are processed one after another: a product's
\* check starts only after the check of every earlier product has ended, and the
\* alerts and history entries of the cycle appear product by product and, within a
\* product, in the order marketplace, supplier, competitor.
C12_ProductsAndSourcesInSequence ==
    cycle.called =>
        /\ \A q \in cycle.checked, pid \in cycle.checked :
              orderIndex(q) < orderIndex(pid) =>
                  cycle.evalAt[pid] >= cycle.evalAt[q] + cycle.inputs[q].elapsed
        /\ inProcessingOrder(newAlerts)
        /\ inProcessingOrder(newHistory)

\* C12 witness: one cycle checked p1, which took a tick, then p2, whose supplier and
\* competitor entries follow p1's marketplace entry.
C12_Witness ==
    /\ cycle.called
    /\ cycle.checked = {"p1", "p2"}
    /\ cycle.inputs["p1"].elapsed = 1
    /\ cycle.evalAt["p2"] = cycle.evalAt["p1"] + 1
    /\ cycleHistory("p1", "ebay") # {}
    /\ cycleHistory("p2", "supplier") # {}
    /\ cycleHistory("p2", "competitor") # {}

-----------------------------------------------------------------------------
(* cronService: the scheduler's operations *)

MaxTimers == 3                   \* timers created, calls and requests in flight included

\* Settings after ensureUserSettings(userId): created with the schema defaults when absent.
ensureUserSettings(sets, u) == IF sets[u].exists THEN sets ELSE [sets EXCEPT ![u] = defaultSettings]

\* resolvedSettings?.monitoringFrequency || 30
resolvedFrequency(s) == IF s.monitoringFrequency # 0 THEN s.monitoringFrequency ELSE DefaultMonitoringFrequency

\* createUserCron up to its await: the timer registered under this very key, if any,
\* is stopped and its entry deleted.
stopExisting(ts, jobs, key) == IF hasCron(jobs, key) THEN stopTimers(ts, {jobs[key]}) ELSE ts

deleteExisting(jobs, key) == [jobs EXCEPT ![key] = 0]

\* A createUserCron(key) call runs to `await ensureUserSettings(userId)` and suspends.
\* caller is what awaits it; body is the request body when that is updateSettings.
createUserCronBegin(key, caller, body) ==
    /\ Len(timers) + Len(pendingCron) < MaxTimers
    /\ timers' = stopExisting(timers, userCronJobs, key)
    /\ userCronJobs' = deleteExisting(userCronJobs, key)
    /\ pendingCron' = Append(pendingCron, [key |-> key, caller |-> caller, body |-> body])

initCallPending == \E i \in 1..Len(pendingCron) : pendingCron[i].caller = "initializeCronJobs"

\* restartUserCron(userId) or createUserCron(userId) called on its own.
RestartUserCron ==
    \E key \in CronKeys :
        /\ createUserCronBegin(key, "restartUserCron", noBody)
        /\ UNCHANGED <<initPhase, initQueue>>
        /\ UNCHANGED <<monitorVars, libVars, httpVars>>

\* A suspended createUserCron call resumes: the settings are resolved, the timer is
\* created from the frequency, started, and stored in the registry under the call's key.
CreateUserCronResume ==
    \E i \in 1..Len(pendingCron) :
        LET key == pendingCron[i].key
            sets == ensureUserSettings(settings, key.user)
            job == cronJob(key.user, frequencyToCron(resolvedFrequency(sets[key.user])))
        IN  /\ settings' = sets
            /\ timers' = Append(timers, [job EXCEPT !.running = TRUE])
            /\ userCronJobs' = [userCronJobs EXCEPT ![key] = Len(timers) + 1]
            /\ pendingCron' = SubSeq(pendingCron, 1, i - 1) \o SubSeq(pendingCron, i + 1, Len(pendingCron))
            /\ UNCHANGED <<initPhase, initQueue>>
            /\ response' = IF pendingCron[i].caller = "updateSettings"
                           THEN [status |-> 200, user |-> key.user, body |-> pendingCron[i].body]
                           ELSE response
            /\ UNCHANGED <<products, newAlerts, newHistory, now, run, unavailStreak, cycle>>
            /\ UNCHANGED <<libVars, requests>>

\* stopCron(): every registered timer is stopped and the registry cleared.
StopCron ==
    /\ timers' = stopTimers(timers, {userCronJobs[key] : key \in CronKeys})
    /\ userCronJobs' = [key \in CronKeys |-> 0]
    /\ UNCHANGED <<pendingCron, initPhase, initQueue>>
    /\ UNCHANGED <<monitorVars, libVars, httpVars>>

\* startCron(): initializeCronJobs begins and awaits User.find({}).
StartCron ==
    /\ initPhase = "idle"
    /\ initPhase' = "find"
    /\ UNCHANGED <<userCronJobs, timers, pendingCron, initQueue>>
    /\ UNCHANGED <<monitorVars, libVars, httpVars>>

\* restartCron(): stopCron(), then initializeCronJobs begins and awaits User.find({}).
RestartCron ==
    /\ initPhase = "idle"
    /\ timers' = stopTimers(timers, {userCronJobs[key] : key \in CronKeys})
    /\ userCronJobs' = [key \in CronKeys |-> 0]
    /\ initPhase' = "find"
    /\ UNCHANGED <<pendingCron, initQueue>>
    /\ UNCHANGED <<monitorVars, libVars, httpVars>>

\* User.find({}) resolves: every user document carries its own _id object.
InitializeFound ==
    /\ initPhase = "find"
    /\ \E refs \in [Tenants -> ObjectRefs] :
          initQueue' = [i \in 1..Len(userOrder) |-> [user |-> userOrder[i], ref |-> refs[userOrder[i]]]]
    /\ initPhase' = "loop"
    /\ UNCHANGED <<userCronJobs, timers, pendingCron>>
    /\ UNCHANGED <<monitorVars, libVars, httpVars>>

\* The loop of initializeCronJobs calls createUserCron(user._id) for its next user,
\* once the call for the previous user has returned.
InitializeNext ==
    /\ initPhase = "loop"
    /\ ~initCallPending
    /\ initQueue # << >>
    /\ createUserCronBegin(Head(initQueue), "initializeCronJobs", noBody)
    /\ initQueue' = Tail(initQueue)
    /\ UNCHANGED initPhase
    /\ UNCHANGED <<monitorVars, libVars, httpVars>>

\* initializeCronJobs returns after its last createUserCron call.
InitializeDone ==
    /\ initPhase = "loop"
    /\ ~initCallPending
    /\ initQueue = << >>
    /\ initPhase' = "idle"
    /\ UNCHANGED <<userCronJobs, timers, pendingCron, initQueue>>
    /\ UNCHANGED <<monitorVars, libVars, httpVars>>


(***************************************************************************)
(* settingsController.updateSettings, PUT /api/settings, for the frequency *)
(* field of the body.                                                      *)
(***************************************************************************)
RequestFrequencies == {10, 20, 90, 1500}

RequestBodies == {noBody} \cup [hasFrequency : {TRUE}, monitoringFrequency : RequestFrequencies]

\* Mutant for C15: only the upper limit is validated.
frequencyAcceptedNoMinimum(body) ==
    body.hasFrequency => ~(body.monitoringFrequency > 1440)

\* the request passes `monitoringFrequency < 15 || monitoringFrequency > 1440`
frequencyAccepted(body) ==
    body.hasFrequency => ~(body.monitoringFrequency < 15 \/ body.monitoringFrequency > 1440)

\* The request arrives: it is validated, answered 400 when the frequency is out of
\* range, and otherwise awaits Settings.findOne.
UpdateSettingsReceive ==
    \E key \in CronKeys, body \in RequestBodies :
        /\ Len(timers) + Len(pendingCron) + Len(requests) < MaxTimers
        /\ IF frequencyAccepted(body)
           THEN /\ requests' = Append(requests, [key |-> key, body |-> body, pc |-> "find",
                                                 wasNew |-> FALSE, frequencyChanged |-> FALSE, loaded |-> 0])
                /\ UNCHANGED response
           ELSE /\ response' = [status |-> 400, user |-> key.user, body |-> body]
                /\ UNCHANGED requests
        /\ UNCHANGED <<monitorVars, cronVars, libVars>>

\* Settings.findOne resolves: wasNew and frequencyChanged are computed from the document.
UpdateSettingsFound ==
    \E i \in 1..Len(requests) :
        LET r == requests[i]
            doc == settings[r.key.user]
        IN  /\ r.pc = "find"
            /\ requests' = [requests EXCEPT ![i] =
                   [r EXCEPT !.pc = "save",
                             !.wasNew = ~doc.exists,
                             !.frequencyChanged = doc.exists /\ r.body.hasFrequency
                                                    /\ doc.monitoringFrequency # r.body.monitoringFrequency,
                             !.loaded = IF doc.exists THEN doc.monitoringFrequency ELSE 0]]
            /\ UNCHANGED <<monitorVars, cronVars, libVars, response>>

removeAt(seq, i) == SubSeq(seq, 1, i - 1) \o SubSeq(seq, i + 1, Len(seq))

\* Settings.create (userId is unique) or settings.save() resolves, and the handler goes
\* on: restartUserCron when the frequency changed or the document is new, else 200.
UpdateSettingsSaved ==
    \E i \in 1..Len(requests) :
        LET r == requests[i]
            u == r.key.user
            duplicate == r.wasNew /\ settings[u].exists
            written == IF r.wasNew
                       THEN [defaultSettings EXCEPT !.monitoringFrequency =
                                IF r.body.hasFrequency THEN r.body.monitoringFrequency ELSE @]
                       ELSE IF r.body.hasFrequency /\ r.body.monitoringFrequency # r.loaded
                       THEN [settings[u] EXCEPT !.monitoringFrequency = r.body.monitoringFrequency]
                       ELSE settings[u]
        IN  /\ r.pc = "save"
            /\ requests' = removeAt(requests, i)
            /\ IF duplicate
               THEN /\ response' = [status |-> 500, user |-> u, body |-> r.body]
                    /\ UNCHANGED <<settings, cronVars>>
               ELSE /\ settings' = [settings EXCEPT ![u] = written]
                    /\ IF r.frequencyChanged \/ r.wasNew
                       THEN /\ createUserCronBegin(r.key, "updateSettings", r.body)
                            /\ UNCHANGED <<initPhase, initQueue, response>>
                       ELSE /\ response' = [status |-> 200, user |-> u, body |-> r.body]
                            /\ UNCHANGED cronVars
            /\ UNCHANGED <<products, newAlerts, newHistory, now, run, unavailStreak, cycle>>
            /\ UNCHANGED libVars

CronInit ==
    /\ products = [pid \in {"p1"} |-> productDoc("u1", TRUE, 100, "in_stock", FALSE, 0, "unknown", 1)]
    /\ \E f1 \in {15, 90} :
          settings = [u \in Tenants |-> IF u = "u1" THEN settingsDoc(f1, 5, allAlertTypes(TRUE)) ELSE noSettings]
    /\ newAlerts = << >>
    /\ newHistory = << >>
    /\ now = 1
    /\ run = noRun
    /\ unavailStreak = [pid \in {"p1"} |-> 0]
    /\ cycle = noCycle
    /\ cronIdle
    /\ libIdle
    /\ httpIdle

CronNext ==
    \/ RestartUserCron
    \/ CreateUserCronResume
    \/ StopCron
    \/ StartCron
    \/ RestartCron
    \/ InitializeFound
    \/ InitializeNext
    \/ InitializeDone

CronSpec == CronInit /\ [][CronNext]_vars

(***************************************************************************)
(* The settings layer after startup: u1 was scheduled by initializeCronJobs *)
(* under the _id object of its user document, u2 registered later and has  *)
(* neither settings nor a timer.                                           *)
(***************************************************************************)
SettingsInit ==
    /\ products = [pid \in {"p1"} |-> productDoc("u1", TRUE, 100, "in_stock", FALSE, 0, "unknown", 1)]
    /\ \E f1 \in {15, 90} :
          settings = [u \in Tenants |-> IF u = "u1" THEN settingsDoc(f1, 5, allAlertTypes(TRUE)) ELSE noSettings]
    /\ newAlerts = << >>
    /\ newHistory = << >>
    /\ now = 1
    /\ run = noRun
    /\ unavailStreak = [pid \in {"p1"} |-> 0]
    /\ cycle = noCycle
    /\ timers = << [cronJob("u1", frequencyToCron(settings["u1"].monitoringFrequency)) EXCEPT !.running = TRUE] >>
    /\ userCronJobs = [key \in CronKeys |-> IF key = [user |-> "u1", ref |-> "a"] THEN 1 ELSE 0]
    /\ pendingCron = << >>
    /\ initPhase = "idle"
    /\ initQueue = << >>
    /\ libIdle
    /\ httpIdle

SettingsNext ==
    \/ UpdateSettingsReceive
    \/ UpdateSettingsFound
    \/ UpdateSettingsSaved
    \/ CreateUserCronResume

SettingsSpec == SettingsInit /\ [][SettingsNext]_vars

\* Reading the scheduler
cronQuiescent == pendingCron = << >> /\ initPhase = "idle" /\ requests = << >>
startedTimers(u) == {i \in 1..Len(timers) : timers[i].user = u /\ timers[i].running}
registeredTimers == {userCronJobs[key] : key \in {k \in CronKeys : hasCron(userCronJobs, k)}}

\* C1: once every createUserCron, restartUserCron, stopCron and restartCron call has
\* returned, whatever their interleaving and whichever objects carried the tenant's id,
\* each tenant has at most one started timer, that timer is the one the registry holds,
\* and every timer that is no longer in the registry has been stopped.
C1_AtMostOneStartedTimerPerTenant ==
    cronQuiescent =>
        \A u \in Tenants :
            /\ Cardinality(startedTimers(u)) <= 1
            /\ startedTimers(u) \subseteq registeredTimers

runningTimers == {i \in 1..Len(timers) : timers[i].running}

\* C14: whenever no scheduling call or settings request is in flight, every running
\* timer of a tenant uses the expression frequencyToCron(f) of the tenant's persisted
\* monitoringFrequency f; so after an updateSettings that changed the frequency no
\* timer of the old frequency is still running.
C14_TimersUseThePersistedFrequency ==
    cronQuiescent =>
        \A i \in runningTimers :
            /\ settings[timers[i].user].exists
            /\ timers[i].cronExpression = frequencyToCron(settings[timers[i].user].monitoringFrequency)

\* The settings, registry and timers that a rejected request must leave alone.
schedulingState == <<settings, userCronJobs, timers, pendingCron>>

outOfRange(body) == body.hasFrequency /\ (body.monitoringFrequency < 15 \/ body.monitoringFrequency > 1440)

\* C15: an updateSettings request whose monitoringFrequency is below 15 or above 1440
\* never gets past validation (it is never in flight and never answered 200), and the
\* step that answers it 400 changes neither the persisted settings nor the registry
\* nor any timer.
C15_OutOfRangeFrequencyRejected ==
    [][ /\ \A i \in 1..Len(requests') : ~outOfRange(requests'[i].body)
        /\ \A i \in 1..Len(pendingCron') : ~outOfRange(pendingCron'[i].body)
        /\ outOfRange(response'.body) =>
              /\ response'.status = 400
              /\ response' # response => schedulingState' = schedulingState ]_vars

\* C15 witness: tenant u1 has a running timer and a request for 10 minutes was answered 400.
C15_Witness ==
    /\ response.status = 400
    /\ response.user = "u1"
    /\ response.body.monitoringFrequency = 10
    /\ \E i \in runningTimers : timers[i].user = "u1"

-----------------------------------------------------------------------------
(* frequencyToCron on its own *)

MaxFrequencyInput == 1505        \* largest frequency tried, in minutes

FrequencyInputs == (-2)..MaxFrequencyInput

\* The call frequencyToCron(x) of a behaviour.
FrequencyToCron ==
    /\ pure = noCall
    /\ \E x \in FrequencyInputs :
          pure' = [fn |-> "frequencyToCron", arg |-> x, result |-> frequencyToCron(x)]
    /\ UNCHANGED <<monitorVars, cronVars, httpVars, scraperVars, storeVars, runVars, retry, rateVars, tokenVars>>

FrequencySpec == CronInit /\ [][FrequencyToCron]_vars

\* C13: frequencyToCron(x) is the every-15-minutes expression (that of x = 15) for
\* x < 15, the every-x-minutes expression for 15 <= x < 60, the every-H-hours
\* expression with H = floor(x / 60) for 60 <= x < 1440, and the daily-at-midnight
\* expression for x >= 1440.
C13_FrequencyToCronForms ==
    pure.fn = "frequencyToCron" =>
        LET x == pure.arg
            e == pure.result
        IN  /\ x < 15 => e = [every |-> "minutes", step |-> 15]
            /\ x = 15 => e = [every |-> "minutes", step |-> 15]
            /\ (15 <= x /\ x < 60) => e = [every |-> "minutes", step |-> x]
            /\ (60 <= x /\ x < 1440) => e = [every |-> "hours", step |-> x \div 60]
            /\ x = 90 => e = [every |-> "hours", step |-> 1]
            /\ x >= 1440 => e = [every |-> "day", step |-> 1]

\* C13 witness: frequencyToCron(1500) was called and gave the daily expression.
C13_Witness ==
    /\ pure.fn = "frequencyToCron"
    /\ pure.arg = 1500
    /\ pure.result.every = "day"

-----------------------------------------------------------------------------
(* retryWithBackoff(fn, maxRetries, baseDelay) *)

MaxAttempts == 3                 \* largest maxRetries tried

BaseDelays == {250, 1000}

\* What one invocation of fn does: it resolves with a value or rejects with an error.
Outcomes == [ok : {TRUE}, value : {"r1", "r2"}] \cup [ok : {FALSE}, value : {"ETIMEDOUT", "HTTP404"}]

\* Mutant for C16: the last attempt is recognised one iteration late.
isLastAttemptLate(attempt, maxRetries) == attempt = maxRetries

\* attempt === maxRetries - 1
isLastAttempt(attempt, maxRetries) == attempt = maxRetries - 1

\* Mutant for C17: the backoff starts at twice the base delay.
backoffDelayDoubled(baseDelay, attempt) == baseDelay * 2^(attempt + 1)

\* baseDelay * Math.pow(2, attempt)
backoffDelay(baseDelay, attempt) == baseDelay * 2^attempt

\* The call: the loop is entered when 0 < maxRetries, else the function returns undefined.
RetryCall ==
    /\ retry.status = "idle"
    /\ \E m \in 0..MaxAttempts, b \in BaseDelays :
          retry' = [noRetry EXCEPT !.status = IF 0 < m THEN "running" ELSE "returned",
                                   !.maxRetries = m, !.baseDelay = b]
    /\ UNCHANGED <<monitorVars, cronVars, httpVars, scraperVars, storeVars, runVars, pure, rateVars, tokenVars>>

\* One iteration: fn is invoked and awaited; its value is returned, or its error is
\* rethrown on the last attempt, or the backoff timer is set.
RetryAttempt ==
    /\ retry.status = "running"
    /\ \E o \in Outcomes :
          LET invoked == [retry EXCEPT !.invoked = @ + 1, !.outcomes = Append(@, o)]
          IN  retry' = IF o.ok THEN [invoked EXCEPT !.status = "returned", !.result = o]
                       ELSE IF isLastAttempt(retry.attempt, retry.maxRetries)
                       THEN [invoked EXCEPT !.status = "thrown", !.result = o]
                       ELSE [invoked EXCEPT !.status = "waiting",
                                            !.waits = Append(@, backoffDelay(retry.baseDelay, retry.attempt))]
    /\ UNCHANGED <<monitorVars, cronVars, httpVars, scraperVars, storeVars, runVars, pure, rateVars, tokenVars>>

\* The backoff timer fires: attempt++, and the loop goes on while attempt < maxRetries.
RetryWake ==
    /\ retry.status = "waiting"
    /\ retry' = [retry EXCEPT !.attempt = @ + 1,
                              !.status = IF retry.attempt + 1 < retry.maxRetries THEN "running" ELSE "returned"]
    /\ UNCHANGED <<monitorVars, cronVars, httpVars, scraperVars, storeVars, runVars, pure, rateVars, tokenVars>>

RetryNext == RetryCall \/ RetryAttempt \/ RetryWake

RetrySpec == CronInit /\ [][RetryNext]_vars

retryEnded == retry.status \in {"returned", "thrown"}

allFailed(outcomes) == \A i \in 1..Len(outcomes) : ~outcomes[i].ok

RECURSIVE Sum(_)
Sum(seq) == IF seq = << >> THEN 0 ELSE Head(seq) + Sum(Tail(seq))

\* C16: for maxRetries >= 1 the operation is invoked at least once and at most
\* maxRetries times; no attempt follows a success, and the call returns the result of
\* its first successful attempt; when all maxRetries attempts fail it throws the error
\* of the last one, of whatever kind.
C16_RetryStopsAtFirstSuccessOrThrowsLast ==
    retry.maxRetries >= 1 =>
        /\ retry.invoked = Len(retry.outcomes)
        /\ retry.invoked <= retry.maxRetries
        /\ allFailed(SubSeq(retry.outcomes, 1, retry.invoked - 1))
        /\ retryEnded =>
              /\ retry.invoked >= 1
              /\ retry.result = retry.outcomes[retry.invoked]
              /\ (retry.status = "returned") = retry.result.ok
              /\ retry.status = "thrown" => retry.invoked = retry.maxRetries

\* C16 witness: three attempts allowed, two failed with different errors, the third
\* failed too and its error was thrown.
C16_Witness ==
    /\ retry.status = "thrown"
    /\ retry.maxRetries = 3
    /\ retry.outcomes[1].value = "ETIMEDOUT"
    /\ retry.result.value = "HTTP404"

-----------------------------------------------------------------------------
(* supplierService: waitForRateLimit, detectSupplier, fetchSupplierData.
   The clock `now` is Date.now() in milliseconds here. *)

RateLimitDelay == 2000

RateTickMs == 1000

RateStart == 10000

MaxRateTicks == 4

MaxRateCalls == 3

\* A supplier URL, by what fetchSupplierData and detectSupplier look at: whether
\* it is empty and which of the marker substrings its lower-cased text contains.
SupplierUrls ==
    [empty : {FALSE}, aliexpress : BOOLEAN, amazon : BOOLEAN, alibaba : BOOLEAN]
        \cup {[empty |-> TRUE, aliexpress |-> FALSE, amazon |-> FALSE, alibaba |-> FALSE]}

detectSupplier(url) ==
    IF url.aliexpress THEN "aliexpress"
    ELSE IF url.amazon THEN "amazon"
    ELSE IF url.alibaba THEN "alibaba"
    ELSE "generic"

\* The key that the fetcher chosen by fetchSupplierData's switch passes to
\* waitForRateLimit: fetchAliExpress 'aliexpress', fetchAmazon 'amazon', and
\* fetchGeneric, the default branch, 'generic'.
rateKeyOf(supplier) ==
    CASE supplier = "aliexpress" -> "aliexpress"
      [] supplier = "amazon" -> "amazon"
      [] OTHER -> "generic"

\* waitForRateLimit calls made so far: the suspended ones and the returned ones.
rateCalls ==
    Len(waiters) + Len(permits["aliexpress"]) + Len(permits["amazon"])
        + Len(permits["alibaba"]) + Len(permits["generic"])

\* limiter.lastRequest = Date.now(), after which waitForRateLimit returns.
stampLimiter(key) ==
    /\ rateLimiters' = [rateLimiters EXCEPT ![key] = now]
    /\ permits' = [permits EXCEPT ![key] = Append(@, now)]

\* fetchSupplierData(url) up to the first suspension of waitForRateLimit: an empty
\* url throws; otherwise the supplier is detected, the fetcher is chosen, and the
\* fetcher's waitForRateLimit either goes to sleep for minDelay - timeSinceLastRequest
\* or stamps the limiter at once.
FetchSupplierData ==
    /\ rateCalls < MaxRateCalls
    /\ \E url \in SupplierUrls :
          IF url.empty
          THEN /\ pure' = [fn |-> "fetchSupplierData", url |-> url, thrown |-> TRUE,
                           supplier |-> "none", key |-> "none"]
               /\ UNCHANGED rateVars
          ELSE LET supplier == detectSupplier(url)
                   key == rateKeyOf(supplier)
                   timeSinceLastRequest == now - rateLimiters[key]
               IN  /\ pure' = [fn |-> "fetchSupplierData", url |-> url, thrown |-> FALSE,
                               supplier |-> supplier, key |-> key]
                   /\ IF timeSinceLastRequest < RateLimitDelay
                      THEN /\ waiters' = Append(waiters,
                                  [key |-> key,
                                   wakeAt |-> now + (RateLimitDelay - timeSinceLastRequest)])
                           /\ UNCHANGED <<rateLimiters, permits>>
                      ELSE /\ stampLimiter(key)
                           /\ UNCHANGED waiters
    /\ UNCHANGED <<monitorVars, cronVars, httpVars, scraperVars, storeVars, runVars, retry, tokenVars>>

\* The setTimeout of a suspended waitForRateLimit fires, at its wake-up instant or
\* later; the call stamps the limiter and returns.
RateWake ==
    /\ \E i \in 1..Len(waiters) :
          /\ waiters[i].wakeAt <= now
          /\ stampLimiter(waiters[i].key)
          /\ waiters' = removeAt(waiters, i)
    /\ UNCHANGED <<monitorVars, cronVars, httpVars, scraperVars, storeVars, runVars, pure, retry, tokenVars>>

RateTick ==
    /\ now < RateStart + MaxRateTicks * RateTickMs
    /\ now' = now + RateTickMs
    /\ UNCHANGED <<products, settings, newAlerts, newHistory, run, unavailStreak, cycle>>
    /\ UNCHANGED <<cronVars, libVars, httpVars>>

RateInit ==
    /\ products = [pid \in {"p1"} |-> productDoc("u1", TRUE, 100, "in_stock", FALSE, 0, "unknown", 1)]
    /\ settings = [u \in Tenants |-> noSettings]
    /\ newAlerts = << >>
    /\ newHistory = << >>
    /\ now = RateStart
    /\ run = noRun
    /\ unavailStreak = [pid \in {"p1"} |-> 0]
    /\ cycle = noCycle
    /\ cronIdle
    /\ libIdle
    /\ httpIdle

RateNext ==
    \/ FetchSupplierData
    \/ RateWake
    \/ RateTick

RateSpec == RateInit /\ [][RateNext]_vars

\* C18: for every source key, any two instants at which waitForRateLimit returned
\* are at least minDelay apart, also when several callers wait on the key at
\* overlapping times.
C18_PermitsAtLeastMinDelayApart ==
    \A k \in SourceKeys :
        \A i, j \in 1..Len(permits[k]) :
            i < j => permits[k][j] - permits[k][i] >= RateLimitDelay

\* C19: the rate-limiter key that fetchSupplierData waits on is the supplier name
\* that detectSupplier returns for the url.
C19_RateKeyIsDetectedSupplier ==
    (pure.fn = "fetchSupplierData" /\ ~pure.thrown) =>
        /\ pure.supplier = detectSupplier(pure.url)
        /\ pure.key = pure.supplier

-----------------------------------------------------------------------------
(* competitorService / storeImportService: getEbayToken and its module-level cache.
   The clock `now` is Date.now() in milliseconds here. *)

SafetyMarginMs == 60000

TokenTickMs == 30000

TokenStart == 100000

MaxTokenTicks == 2

MaxExchanges == 2

\* response.data.access_token: the server may issue a new token or the same one again.
Tokens == {1, 2}

\* response.data.expires_in, in seconds.
ExpiresIn == {60, 90, 120}

\* cachedToken && tokenExpiry && t < tokenExpiry, read at the boundary too
tokenStillValidInclusive(token, expiry, t) == token # 0 /\ expiry # 0 /\ t <= expiry

\* cachedToken && tokenExpiry && Date.now() < tokenExpiry
tokenStillValid(token, expiry, t) == token # 0 /\ expiry # 0 /\ t < expiry

\* Date.now() + (response.data.expires_in * 1000) - 60000
expiryFor(t, expiresIn) == t + (expiresIn * 1000) - SafetyMarginMs

\* process.env.EBAY_APP_ID and process.env.EBAY_CERT_ID as a call finds them:
\* absent (undefined or empty), the placeholder of the sample configuration, or set.
EnvValues == {"absent", "placeholder", "set"}

Credentials ==
    {[appId |-> "set", certId |-> "set"]}
        \cup [appId : EnvValues \ {"set"}, certId : {"set"}]
        \cup [appId : {"set"}, certId : EnvValues \ {"set"}]

\* !(!appId || !certId || appId === 'your_ebay_app_id')
credentialsConfigured(appId, certId) ==
    ~(appId = "absent" \/ certId = "absent" \/ appId = "placeholder")

\* getEbayToken() up to its return, its throw or its `await axios.post(...)`:
\* a valid cached token is returned at once; otherwise credentials that fail the
\* test (process.env, read at every call) throw, and else the exchange is posted.
GetEbayToken ==
    /\ \E env \in Credentials :
          LET call == [noTokenCall EXCEPT !.calledAt = now, !.at = now,
                           !.cachedAtCall = cachedToken, !.expiryAtCall = tokenExpiry,
                           !.appId = env.appId, !.certId = env.certId]
              configured == credentialsConfigured(env.appId, env.certId)
          IN  IF tokenStillValid(cachedToken, tokenExpiry, now)
              THEN /\ tokenCall' = [call EXCEPT !.how = "cached", !.token = cachedToken]
                   /\ UNCHANGED <<cachedToken, tokenExpiry, exchanges>>
              ELSE IF ~configured
              THEN /\ tokenCall' = [call EXCEPT !.how = "threw_credentials"]
                   /\ UNCHANGED <<cachedToken, tokenExpiry, exchanges>>
              ELSE /\ Len(exchanges) < MaxExchanges
                   /\ exchanges' = Append(exchanges, [call EXCEPT !.how = "posted"])
                   /\ UNCHANGED <<cachedToken, tokenExpiry, tokenCall>>
    /\ UNCHANGED <<monitorVars, cronVars, httpVars, scraperVars, storeVars, runVars, pure, retry, rateVars>>

\* a cache that keeps a token another exchange stored meanwhile
storeTokenKeepingFirst(cached, expiry, token, newExpiry, t) ==
    IF tokenStillValid(cached, expiry, t) THEN [token |-> cached, expiry |-> expiry]
    ELSE [token |-> token, expiry |-> newExpiry]

\* cachedToken = response.data.access_token; tokenExpiry = ...: whatever the
\* cache holds by now is overwritten.
storeToken(cached, expiry, token, newExpiry, t) == [token |-> token, expiry |-> newExpiry]

\* axios.post resolves: the call stores the token and its expiry and returns
\* the module variable it has just written.
ExchangeResolves ==
    /\ \E i \in 1..Len(exchanges), token \in Tokens, expiresIn \in ExpiresIn :
          LET stored == storeToken(cachedToken, tokenExpiry, token,
                                   expiryFor(now, expiresIn), now)
          IN  /\ cachedToken' = stored.token
              /\ tokenExpiry' = stored.expiry
              /\ tokenCall' = [exchanges[i] EXCEPT !.how = "exchanged", !.at = now,
                                   !.token = stored.token, !.issued = token,
                                   !.exchanged = 1, !.expiresIn = expiresIn]
              /\ exchanges' = removeAt(exchanges, i)
    /\ UNCHANGED <<monitorVars, cronVars, httpVars, scraperVars, storeVars, runVars, pure, retry, rateVars>>

\* axios.post rejects: the catch block logs and rethrows; the cache is not touched.
ExchangeRejects ==
    /\ \E i \in 1..Len(exchanges) :
          /\ tokenCall' = [exchanges[i] EXCEPT !.how = "threw_exchange", !.at = now,
                               !.exchanged = 1]
          /\ exchanges' = removeAt(exchanges, i)
    /\ UNCHANGED <<cachedToken, tokenExpiry>>
    /\ UNCHANGED <<monitorVars, cronVars, httpVars, scraperVars, storeVars, runVars, pure, retry, rateVars>>

TokenTick ==
    /\ now < TokenStart + MaxTokenTicks * TokenTickMs
    /\ now' = now + TokenTickMs
    /\ UNCHANGED <<products, settings, newAlerts, newHistory, run, unavailStreak, cycle>>
    /\ UNCHANGED <<cronVars, libVars, httpVars>>

TokenInit ==
    /\ products = [pid \in {"p1"} |-> productDoc("u1", TRUE, 100, "in_stock", FALSE, 0, "unknown", 1)]
    /\ settings = [u \in Tenants |-> noSettings]
    /\ newAlerts = << >>
    /\ newHistory = << >>
    /\ now = TokenStart
    /\ run = noRun
    /\ unavailStreak = [pid \in {"p1"} |-> 0]
    /\ cycle = noCycle
    /\ cronIdle
    /\ libIdle
    /\ httpIdle

TokenNext ==
    \/ GetEbayToken
    \/ ExchangeResolves
    \/ ExchangeRejects
    \/ TokenTick

TokenSpec == TokenInit /\ [][TokenNext]_vars

\* Whether, at the instant the latest call was made, a token was cached and that
\* instant was earlier than the stored expiry (time of storing + expires_in - 60 s).
validAtCall ==
    /\ tokenCall.cachedAtCall # 0
    /\ tokenCall.calledAt < tokenCall.expiryAtCall

\* What a call that returns does: the cached token without an exchange, or one
\* exchange whose token is stored with expiry (now + expires_in - 60 s) and returned.
returnsAsSpecified ==
    /\ tokenCall.how = "cached" =>
          /\ tokenCall.token = tokenCall.cachedAtCall
          /\ tokenCall.exchanged = 0
          /\ tokenCall.at < tokenCall.expiryAtCall
    /\ tokenCall.how = "exchanged" =>
          /\ tokenCall.exchanged = 1
          /\ cachedToken = tokenCall.token
          /\ tokenExpiry = tokenCall.at + tokenCall.expiresIn * 1000 - SafetyMarginMs

\* C20 as stated: a call returns the cached token without an exchange exactly when
\* a token is cached and now is earlier than its expiry; every other call performs
\* one exchange, stores the new token with its expiry and returns it; no cached
\* token is returned at or after its expiry.
C20_CachedExactlyWhenValidElseExchange ==
    tokenCall.how # "none" =>
        /\ (tokenCall.how = "cached") <=> validAtCall
        /\ ~validAtCall => tokenCall.how = "exchanged"
        /\ returnsAsSpecified

\* C20, amended: as above for every call whose credentials are configured and whose
\* exchange succeeds; a call without a valid cached token throws without an
\* exchange when the credentials are missing, and throws after its one exchange
\* when the exchange fails; a call that throws returns no token.
C20_CachedExactlyWhenValidElseExchangeOrThrow ==
    tokenCall.how # "none" =>
        /\ (tokenCall.how = "cached") <=> validAtCall
        /\ ~validAtCall =>
              tokenCall.how \in {"exchanged", "threw_credentials", "threw_exchange"}
        /\ returnsAsSpecified
        /\ tokenCall.how = "threw_credentials" =>
              tokenCall.exchanged = 0 /\ tokenCall.token = 0
        /\ tokenCall.how = "threw_exchange" =>
              tokenCall.exchanged = 1 /\ tokenCall.token = 0

\* A cached token is returned at the last clock instant before its expiry, after
\* an exchange stored it, while another call's exchange is still under way.
C20_Witness ==
    /\ tokenCall.how = "cached"
    /\ tokenCall.token # 0
    /\ tokenCall.expiryAtCall - tokenCall.at = TokenTickMs
    /\ exchanges # << >>

\* Whether a call found the app id or the secret absent or a placeholder value.
credentialsMissing(call) == call.appId # "set" \/ call.certId # "set"

\* C21: whenever the app id or the secret is absent or a placeholder at the time of
\* the call, getEbayToken fails with the credentials error, returns no token and
\* issues no exchange, whatever the state of the cache.
C21_MissingCredentialsAlwaysFail ==
    /\ (tokenCall.how # "none" /\ credentialsMissing(tokenCall)) =>
          /\ tokenCall.how = "threw_credentials"
          /\ tokenCall.token = 0
          /\ tokenCall.exchanged = 0
    /\ \A i \in 1..Len(exchanges) : ~credentialsMissing(exchanges[i])

-----------------------------------------------------------------------------
(* puppeteerScraper: seller-identity extraction.  A page is described by the
   text each strategy of the chain finds in it. *)

\* The texts a strategy can find: nothing, an ordinary seller name, the platform
\* brand in both spellings, a name of 50 characters, one of 60, and a short text
\* that contains "http".  "eBayUK" is what is left of 'eBay UK' once whitespace
\* is removed.
CandidateTexts == {"none", "seller_1", "eBay", "eBay UK", "fifty", "sixty", "http"}

textLength(text) ==
    CASE text = "none" -> 0
      [] text = "seller_1" -> 8
      [] text = "eBay" -> 4
      [] text = "eBay UK" -> 7
      [] text = "eBayUK" -> 6
      [] text = "fifty" -> 50
      [] text = "sixty" -> 60
      [] text = "http" -> 20

containsHttp(text) == text = "http"

isBrand(text) == text \in {"eBay", "eBay UK"}

Strategies == {"jsonld", "twitter", "dom", "scripts", "link"}

\* The order of the methods inside page.evaluate.
storefrontChain == <<"jsonld", "twitter", "dom", "scripts", "link">>

productPageChain == <<"jsonld", "twitter", "scripts", "dom", "link">>

\* content.match(/@?([^"'\s,]+)/)[1]: the text up to the first whitespace
twitterToken(text) == IF text = "eBay UK" THEN "eBay" ELSE text

\* match[1].replace(/["'}\s]/g, '').trim()
stripped(text) == IF text = "eBay UK" THEN "eBayUK" ELSE text

\* text && text !== 'eBay UK' && text !== 'eBay' && text.length < 50
shortAndNotBrand(text) ==
    text # "none" /\ text # "eBay UK" /\ text # "eBay" /\ textLength(text) < 50

\* What one method returns for the text it finds: the value it returns from
\* page.evaluate, or "none" when it falls through to the next method.
\* JSON-LD returns any non-empty field as it is; the script patterns also
\* refuse a text that includes 'http'.
methodResult(strategy, text) ==
    CASE strategy = "jsonld" -> text
      [] strategy = "twitter" ->
            IF shortAndNotBrand(twitterToken(text)) THEN twitterToken(text) ELSE "none"
      [] strategy = "scripts" ->
            IF shortAndNotBrand(stripped(text)) /\ ~containsHttp(stripped(text))
            THEN stripped(text) ELSE "none"
      [] OTHER -> IF shortAndNotBrand(text) THEN text ELSE "none"

RECURSIVE evaluateChain(_, _)
\* page.evaluate: the first method that returns a value ends the function.
evaluateChain(chain, page) ==
    IF chain = << >> THEN "none"
    ELSE LET r == methodResult(Head(chain), page[Head(chain)])
         IN  IF r # "none" THEN r ELSE evaluateChain(Tail(chain), page)

\* if (sellerId && sellerId !== 'eBay UK' && sellerId !== 'eBay') return sellerId;
\* return null;  A navigation error is caught and gives null as well.
extractSellerId(chain, page, navigationFails) ==
    IF navigationFails THEN "none"
    ELSE LET sellerId == evaluateChain(chain, page)
         IN  IF sellerId # "none" /\ sellerId # "eBay UK" /\ sellerId # "eBay"
             THEN sellerId ELSE "none"

SellerPages == [Strategies -> CandidateTexts]

ExtractSellerId ==
    /\ pure = noCall
    /\ \E fn \in {"extractSellerIdFromStorefront", "extractSellerIdFromProductPage"},
          page \in SellerPages, navigationFails \in BOOLEAN :
          pure' = [fn |-> fn, page |-> page, navigationFails |-> navigationFails,
                   result |-> extractSellerId(
                       IF fn = "extractSellerIdFromStorefront"
                       THEN storefrontChain ELSE productPageChain,
                       page, navigationFails)]
    /\ UNCHANGED <<monitorVars, cronVars, httpVars, scraperVars, storeVars, runVars, retry, rateVars, tokenVars>>

SellerSpec == CronInit /\ [][ExtractSellerId]_vars

sellerCall ==
    pure.fn \in {"extractSellerIdFromStorefront", "extractSellerIdFromProductPage"}

\* A strategy yields an accepted candidate: its own test lets the text it finds
\* pass, and the text is not the platform brand.
yieldsAccepted(st, page) ==
    LET r == methodResult(st, page[st]) IN r # "none" /\ ~isBrand(r)

\* C22: a candidate equal to the platform brand is rejected and the next strategy
\* is tried, so an extraction of a page that loaded is unresolved only when no
\* strategy yields an accepted candidate.
C22_BrandCandidateFallsThrough ==
    (sellerCall /\ ~pure.navigationFails /\ pure.result = "none") =>
        \A st \in Strategies : ~yieldsAccepted(st, pure.page)

\* C23: every seller identity returned is not the platform brand, is at most 50
\* characters long and does not contain "http".
C23_ReturnedIdentityIsPlausible ==
    (sellerCall /\ pure.result # "none") =>
        /\ ~isBrand(pure.result)
        /\ textLength(pure.result) <= 50
        /\ ~containsHttp(pure.result)

-----------------------------------------------------------------------------
(* puppeteerScraper: pages of the shared browser, and scrapeStoreListings *)

DefaultMaxPages == 5

ScraperOps == {"extractSellerIdFromStorefront", "extractSellerIdFromProductPage",
               "scrapeStoreListings", "scrapeProductDetails"}

\* The item links of one rendered listing page, in document order.
PageLinks == {<< >>, <<1>>, <<2>>, <<1, 1>>, <<1, 2>>, <<2, 1>>, <<2, 2>>}

RECURSIVE distinctInOrder(_, _)
\* page.evaluate of scrapeStoreListings: a link is pushed unless the page's own
\* itemLinks Set already has its item id.
distinctInOrder(links, seen) ==
    IF links = << >> THEN << >>
    ELSE IF Head(links) \in seen THEN distinctInOrder(Tail(links), seen)
    ELSE <<Head(links)>> \o distinctInOrder(Tail(links), seen \cup {Head(links)})

\* the finally block, skipped
closePageNever(hasPage, open) == open

\* finally { if (page) { await page.close(); } }
closePage(hasPage, open) == IF hasPage THEN open - 1 ELSE open

\* What the operation gives its caller when something inside its try block throws:
\* scrapeProductDetails rethrows, the other three return null.
onError(op) == IF op = "scrapeProductDetails" THEN "threw" ELSE "null"

\* The operation ends: its return value or error, then the finally block.
scraperEnds(outcome) ==
    /\ scrape' = [scrape EXCEPT !.status = "done", !.outcome = outcome, !.hasPage = FALSE]
    /\ openPages' = closePage(scrape.hasPage, openPages)

\* An operation is called: getBrowser() and browser.newPage().  When either
\* rejects, page is still null and the operation ends through catch and finally.
ScraperBegin ==
    /\ scrape.status \in {"idle", "done"}
    /\ \E op \in ScraperOps, opens \in BOOLEAN :
          IF opens
          THEN /\ scrape' = [noScrape EXCEPT !.op = op, !.status = "open", !.hasPage = TRUE,
                                 !.pageNum = 1, !.opened = 1]
               /\ openPages' = openPages + 1
          ELSE /\ scrape' = [noScrape EXCEPT !.op = op, !.status = "done",
                                 !.outcome = onError(op)]
               /\ openPages' = closePage(FALSE, openPages)
    /\ UNCHANGED <<monitorVars, cronVars, httpVars, browserVars, storeVars, runVars, pure, retry, rateVars, tokenVars>>

\* setupPage, navigateWithRetry or page.evaluate rejects: the outer catch.
ScraperThrows ==
    /\ scrape.status = "open"
    /\ scrape.visited = << >>
    /\ scraperEnds(onError(scrape.op))
    /\ UNCHANGED <<monitorVars, cronVars, httpVars, browserVars, storeVars, runVars, pure, retry, rateVars, tokenVars>>

\* One of the three single-page operations evaluates its page: a usable value is
\* returned; an unusable one gives null for the seller operations and the error
\* 'Could not extract valid product data' for scrapeProductDetails.
ScraperEvaluates ==
    /\ scrape.status = "open"
    /\ scrape.op # "scrapeStoreListings"
    /\ \E usable \in BOOLEAN :
          scraperEnds(IF usable THEN "value" ELSE onError(scrape.op))
    /\ UNCHANGED <<monitorVars, cronVars, httpVars, browserVars, storeVars, runVars, pure, retry, rateVars, tokenVars>>

\* One pass of the loop `for (pageNum = 1; pageNum <= maxPages; pageNum++)`.
\* A navigation error is caught inside the loop: page 1 breaks, a later page goes
\* on with the next one.  An empty pageItems breaks; otherwise pageItems is
\* pushed onto allItems.  When the loop is left the operation returns allItems,
\* or null when it is empty.
ScrapePage ==
    /\ scrape.status = "open"
    /\ scrape.op = "scrapeStoreListings"
    /\ scrape.pageNum <= DefaultMaxPages
    /\ \E error \in BOOLEAN, links \in PageLinks :
          LET pageItems == IF error THEN << >> ELSE distinctInOrder(links, {})
              collected == {scrape.allItems[i] : i \in 1..Len(scrape.allItems)}
              fresh == Cardinality({pageItems[i] : i \in 1..Len(pageItems)} \ collected)
              visit == [page |-> scrape.pageNum, error |-> error, fresh |-> fresh]
              allItems == scrape.allItems \o pageItems
              leaves == \/ error /\ scrape.pageNum = 1
                        \/ ~error /\ Len(pageItems) = 0
                        \/ scrape.pageNum = DefaultMaxPages
          IN  /\ scrape' = [scrape EXCEPT
                               !.visited = Append(@, visit),
                               !.allItems = allItems,
                               !.pageNum = @ + 1,
                               !.status = IF leaves THEN "done" ELSE "open",
                               !.hasPage = ~leaves,
                               !.outcome = IF ~leaves THEN "none"
                                           ELSE IF Len(allItems) > 0 THEN "value"
                                           ELSE "null"]
              /\ openPages' = IF leaves THEN closePage(scrape.hasPage, openPages)
                              ELSE openPages
    /\ UNCHANGED <<monitorVars, cronVars, httpVars, browserVars, storeVars, runVars, pure, retry, rateVars, tokenVars>>

ScraperNext ==
    \/ ScraperBegin
    \/ ScraperThrows
    \/ ScraperEvaluates
    \/ ScrapePage

ScraperSpec == CronInit /\ [][ScraperNext]_vars

listingsReturned ==
    /\ scrape.op = "scrapeStoreListings"
    /\ scrape.status = "done"
    /\ scrape.outcome = "value"

\* C24: the listing set returned by scrapeStoreListings has no two entries with
\* the same item identifier, also when an item appears on more than one page.
C24_ReturnedListingsAreDistinct ==
    listingsReturned =>
        \A i, j \in 1..Len(scrape.allItems) :
            i # j => scrape.allItems[i] # scrape.allItems[j]

\* C25: scrapeStoreListings visits pages 1, 2, ... in order, never more than
\* maxPages, and visits no page after the first page that yields zero items not
\* already collected (stated here for the pages that were read without an error).
C25_PagesInOrderUntilNoNewItems ==
    scrape.op = "scrapeStoreListings" =>
        /\ Len(scrape.visited) <= DefaultMaxPages
        /\ \A i \in 1..Len(scrape.visited) : scrape.visited[i].page = i
        /\ \A i \in 1..Len(scrape.visited) :
              (i < Len(scrape.visited) /\ ~scrape.visited[i].error) =>
                  scrape.visited[i].fresh > 0

\* C26: every operation closes the page it opened on every exit path, so while
\* no operation is under way no page opened by one is open, and an operation
\* under way holds exactly its own page.
C26_EveryExitClosesThePage ==
    /\ scrape.status \in {"idle", "done"} => openPages = 0
    /\ scrape.status = "open" => openPages = 1 /\ scrape.hasPage

\* An operation that had opened a page has ended with an error.
C26_Witness ==
    /\ scrape.status = "done"
    /\ scrape.opened = 1
    /\ scrape.outcome = "threw"
    /\ openPages = 0

-----------------------------------------------------------------------------
(* ebayService: extractItemId, fetchWithAPI, fetchWithScraping, fetchEbayItem.
   Prices are in thousandths of a currency unit. *)

\* parseFloat of a text without a number
NaN == -1

\* The shapes of an item URL: /itm/<digits>, ?item=<digits>, /p/<digits>, none of them.
UrlShapes == {"itm", "item_param", "p", "other"}

\* extractItemId(url): the digits of the first pattern that matches, or null
extractItemId(url) == IF url = "other" THEN "none" ELSE "110"

\* The text of the first price element of an item page: no element, one price
\* ("£25.00"), or two prices in one element ("£20.00 to £30.00").
PriceTexts == {"none", "single", "range"}

\* The prices that a price text shows.
pricesShown(priceText) ==
    CASE priceText = "none" -> {}
      [] priceText = "single" -> {25000}
      [] priceText = "range" -> {20000, 30000}

\* parseFloat(priceText.replace(/[^0-9.]/g, '')): "25.00" is 25; "20.0030.00" is
\* read up to its second point, 20.003; an empty text is NaN.
parsePagePrice(priceText) ==
    CASE priceText = "none" -> NaN
      [] priceText = "single" -> 25000
      [] priceText = "range" -> 20003

ItemPages ==
    [loads : {TRUE}, title : {"", "Widget"}, priceText : PriceTexts,
     images : {<< >>, <<"a.jpg">>}]
        \cup {[loads |-> FALSE, title |-> "", priceText |-> "none", images |-> << >>]}

noData == [title |-> "", price |-> 0, images |-> << >>]

\* scrapeProductDetails(url): navigation may throw; price stays 0 unless a parsed
\* number is > 0; an empty title or a price of 0 throws.
scrapeProductDetails(page) ==
    LET priceNum == parsePagePrice(page.priceText)
        price == IF priceNum > 0 THEN priceNum ELSE 0
    IN  IF ~page.loads \/ page.title = "" \/ price = 0
        THEN [kind |-> "throw", data |-> noData]
        ELSE [kind |-> "data",
              data |-> [title |-> page.title, price |-> price, images |-> page.images]]

\* fetchWithScraping(url): the scraper's data when it has a title and a price > 0,
\* an error otherwise.
fetchWithScraping(page) ==
    LET r == scrapeProductDetails(page)
    IN  IF r.kind = "data" /\ r.data.title # "" /\ r.data.price > 0
        THEN r
        ELSE [kind |-> "throw", data |-> noData]

\* currentPrice.__value__ of an API item: absent, "0.0", "25.00", or not a number.
ApiValues == {"absent", "zero", "number", "text"}

\* parseFloat(__value__ || 0)
parseApiPrice(value) ==
    CASE value = "absent" -> 0
      [] value = "zero" -> 0
      [] value = "number" -> 25000
      [] value = "text" -> NaN

\* What one findItemsAdvanced request gives: a network error, a response without
\* items, or a first item.
ApiResponses ==
    {[kind |-> "error", hasTitle |-> FALSE, value |-> "absent", gallery |-> FALSE],
     [kind |-> "noItems", hasTitle |-> FALSE, value |-> "absent", gallery |-> FALSE],
     [kind |-> "item", hasTitle |-> TRUE, value |-> "number", gallery |-> TRUE],
     [kind |-> "item", hasTitle |-> FALSE, value |-> "number", gallery |-> FALSE],
     [kind |-> "item", hasTitle |-> TRUE, value |-> "zero", gallery |-> TRUE],
     [kind |-> "item", hasTitle |-> TRUE, value |-> "absent", gallery |-> TRUE],
     [kind |-> "item", hasTitle |-> TRUE, value |-> "text", gallery |-> TRUE]}

\* The function that fetchWithAPI hands to retryWithBackoff: it throws on a network
\* error and on a price of 0, returns null without items, and else the item's data.
apiAttempt(resp) ==
    IF resp.kind = "error" THEN [kind |-> "throw", data |-> noData]
    ELSE IF resp.kind = "noItems" THEN [kind |-> "null", data |-> noData]
    ELSE LET title == IF resp.hasTitle THEN "Widget" ELSE "Unknown Product"
             price == parseApiPrice(resp.value)
         IN  IF title = "" \/ price = 0
             THEN [kind |-> "throw", data |-> noData]
             ELSE [kind |-> "data",
                   data |-> [title |-> title, price |-> price,
                             images |-> IF resp.gallery THEN <<"g.jpg">> ELSE << >>]]

ApiRetries == 3

RECURSIVE apiRetry(_, _)
\* retryWithBackoff(fn, 3, 1000): the result, and the number of requests made
apiRetry(responses, attempt) ==
    LET r == apiAttempt(responses[attempt + 1])
    IN  IF r.kind = "throw"
        THEN IF isLastAttempt(attempt, ApiRetries)
             THEN [result |-> r, requests |-> attempt + 1]
             ELSE apiRetry(responses, attempt + 1)
        ELSE [result |-> r, requests |-> attempt + 1]

\* fetchWithAPI(itemId): null without an app id, else the outcome of the retried
\* request, with a final error turned into null.
fetchWithAPI(appId, responses) ==
    IF appId = "absent" \/ appId = "placeholder"
    THEN [result |-> [kind |-> "null", data |-> noData], requests |-> 0]
    ELSE LET r == apiRetry(responses, 0)
         IN  IF r.result.kind = "throw"
             THEN [result |-> [kind |-> "null", data |-> noData], requests |-> r.requests]
             ELSE r

\* the API is asked whatever page extraction gave
apiFallbackAlways(scrapingThrew, itemId) == itemId # "none"

\* catch (scrapingError) { if (itemId) { data = await fetchWithAPI(itemId); } }
apiFallbackTaken(scrapingThrew, itemId) == scrapingThrew /\ itemId # "none"

\* fetchEbayItem(url): the calls it makes to its two sources, in order, and what
\* it gives its caller.
fetchEbayItem(url, page, appId, responses) ==
    LET itemId == extractItemId(url)
        scraped == fetchWithScraping(page)
        useApi == apiFallbackTaken(scraped.kind = "throw", itemId)
        api == fetchWithAPI(appId, responses)
        data == IF useApi THEN api.result
                ELSE IF scraped.kind = "throw" THEN [kind |-> "null", data |-> noData]
                ELSE scraped
        calls == <<"scrapeProductDetails">>
                     \o (IF useApi THEN <<"fetchWithAPI">> ELSE << >>)
        apiRequests == IF useApi THEN api.requests ELSE 0
    IN  IF data.kind # "data" \/ data.data.title = "" \/ data.data.price = 0
        THEN [calls |-> calls, requests |-> apiRequests, outcome |-> "threw",
              source |-> "none", snapshot |-> noData]
        ELSE [calls |-> calls, requests |-> apiRequests, outcome |-> "returned",
              source |-> IF useApi THEN "api" ELSE "page",
              snapshot |-> data.data]

FetchEbayItem ==
    /\ pure = noCall
    /\ \E url \in UrlShapes, page \in ItemPages, appId \in EnvValues,
          responses \in [1..ApiRetries -> ApiResponses] :
          pure' = [fn |-> "fetchEbayItem", url |-> url, page |-> page, appId |-> appId,
                   responses |-> responses,
                   result |-> fetchEbayItem(url, page, appId, responses)]
    /\ UNCHANGED <<monitorVars, cronVars, httpVars, scraperVars, storeVars, runVars, retry, rateVars, tokenVars>>

FetchSpec == TokenInit /\ [][FetchEbayItem]_vars

fetchCall == pure.fn = "fetchEbayItem"

\* Page extraction fails: the page does not load, has no title, or no price > 0.
pageExtractionFails(page) ==
    ~page.loads \/ page.title = "" \/ ~(parsePagePrice(page.priceText) > 0)

\* The API path fails: no item id, no app id, or no request that gives an item
\* with a non-zero price before the attempts are used up or an empty response.
apiPathFails(url, appId, responses) ==
    \/ url = "other"
    \/ appId # "set"
    \/ \A i \in 1..ApiRetries :
          \/ responses[i].kind # "item"
          \/ parseApiPrice(responses[i].value) = 0
          \/ \E j \in 1..(i - 1) : responses[j].kind = "noItems"

upstreamPrices ==
    IF pure.result.source = "page" THEN pricesShown(pure.page.priceText)
    ELSE {25000}

upstreamImages ==
    IF pure.result.source = "page"
    THEN {pure.page.images[i] : i \in 1..Len(pure.page.images)}
    ELSE {"g.jpg"}

\* C28: every price and every image of a returned snapshot was present in the
\* upstream response; nothing is substituted.
C28_SnapshotValuesComeFromUpstream ==
    (fetchCall /\ pure.result.outcome = "returned") =>
        /\ pure.result.snapshot.price \in upstreamPrices
        /\ \A i \in 1..Len(pure.result.snapshot.images) :
              pure.result.snapshot.images[i] \in upstreamImages

-----------------------------------------------------------------------------
(* productController.addProduct / updateProduct and storeImportService
   .importStoreListings over the Product collection with its unique index
   { userId: 1, ebayItemId: 1 }. *)

MaxStoreRequests == 3

EbayItemIds == {"110", "220"}

\* What the page.evaluate of getSellerIdFromScraping finds on the first product
\* page: no product link at all, nothing, the store's own slug, the platform
\* brand, or a seller name.
StorefrontFinds == {"no_links", "none", "slug", "eBay", "eBay UK", "seller_1"}

\* The listings that the store's API or scrape gives, by item id.
StoreListings == {<< >>, <<"110">>, <<"110", "220">>}

\* Product.findOne({ userId, ebayItemId }): the _id of the document, 0 for null
findOne(cat, user, itemId) ==
    IF \E i \in 1..Len(cat) : cat[i].userId = user /\ cat[i].ebayItemId = itemId
    THEN CHOOSE i \in 1..Len(cat) :
             /\ cat[i].userId = user /\ cat[i].ebayItemId = itemId
             /\ \A j \in 1..(i - 1) : ~(cat[j].userId = user /\ cat[j].ebayItemId = itemId)
    ELSE 0

\* a collection without the unique index
duplicateKeyNever(cat, user, itemId, self) == FALSE

\* The unique index { userId: 1, ebayItemId: 1 }: a write of (user, itemId) by
\* document self (0: a new document) is refused when another document has the pair.
duplicateKey(cat, user, itemId, self) ==
    \E i \in 1..Len(cat) :
        i # self /\ cat[i].userId = user /\ cat[i].ebayItemId = itemId

noStoreReq == [kind |-> "none", user |-> "u1", pc |-> "none", itemId |-> "none",
               items |-> << >>, existing |-> FALSE, target |-> 0]

\* getSellerIdFromScraping(storeName): throws without product links and when the
\* id found is empty, the store name or the platform brand; else returns the id.
getSellerIdFromScraping(found) ==
    IF found = "no_links" THEN [kind |-> "throw", id |-> "none"]
    ELSE IF found = "none" \/ found = "slug" \/ found = "eBay UK" \/ found = "eBay"
    THEN [kind |-> "throw", id |-> "none"]
    ELSE [kind |-> "value", id |-> found]

\* Steps 1 to 3 of importStoreListings: the helpers called, in order, and the
\* seller id the import goes on with, or the error it throws.
resolveSellerId(hasStoreName, found, productPageFinds) ==
    IF ~hasStoreName
    THEN [outcome |-> "failed_store_name", calls |-> << >>, sellerID |-> "none"]
    ELSE LET first == getSellerIdFromScraping(found)
         IN  IF first.kind = "throw"
             THEN [outcome |-> "failed_seller", calls |-> <<"getSellerIdFromScraping">>,
                   sellerID |-> "none"]
             ELSE IF first.id # "none"
             THEN [outcome |-> "resolved", calls |-> <<"getSellerIdFromScraping">>,
                   sellerID |-> first.id]
             ELSE IF productPageFinds # "none"
             THEN [outcome |-> "resolved",
                   calls |-> <<"getSellerIdFromScraping", "getSellerIdFromProductPage">>,
                   sellerID |-> productPageFinds]
             ELSE [outcome |-> "failed_seller",
                   calls |-> <<"getSellerIdFromScraping", "getSellerIdFromProductPage">>,
                   sellerID |-> "none"]

\* A call ends or writes: what it was, how it went, and whether the number of
\* products grew.
logged(kind, user, outcome, after) ==
    [kind |-> kind, outcome |-> outcome, grew |-> after > Len(catalog)]

\* the calls in flight: one more, one fewer, one moved on
started(r) == storeReqs (+) SetToBag({r})
ended(r) == storeReqs (-) SetToBag({r})
movedOn(r, next) == (storeReqs (-) SetToBag({r})) (+) SetToBag({next})

\* addProduct up to the answer of Product.findOne: fetchEbayItem may fail (400);
\* an existing product is answered 400; otherwise the handler goes on to create.
AddProductFind ==
    /\ storeCalls < MaxStoreRequests
    /\ storeCalls' = storeCalls + 1
    /\ \E user \in Tenants, itemFetched \in EbayItemIds \cup {"none"} :
          IF itemFetched = "none"
          THEN /\ storeLog' = logged("addProduct", user, "fetch_failed", Len(catalog))
               /\ UNCHANGED <<catalog, storeReqs>>
          ELSE IF findOne(catalog, user, itemFetched) # 0
          THEN /\ storeLog' = logged("addProduct", user, "already_exists", Len(catalog))
               /\ UNCHANGED <<catalog, storeReqs>>
          ELSE /\ storeReqs' = started(
                      [noStoreReq EXCEPT !.kind = "addProduct", !.user = user,
                                         !.pc = "create", !.itemId = itemFetched])
               /\ UNCHANGED <<catalog, storeLog>>
    /\ UNCHANGED <<monitorVars, cronVars, httpVars, scraperVars, runVars, pure, retry, rateVars, tokenVars>>

\* Product.create(productData) of addProduct: the insert, or the duplicate key
\* error that the handler answers with 500.
AddProductCreate ==
    /\ \E r \in BagToSet(storeReqs) :
              /\ r.kind = "addProduct"
              /\ IF duplicateKey(catalog, r.user, r.itemId, 0)
                 THEN /\ storeLog' = logged("addProduct", r.user, "duplicate_key", Len(catalog))
                      /\ UNCHANGED catalog
                 ELSE /\ catalog' = Append(catalog, [userId |-> r.user, ebayItemId |-> r.itemId])
                      /\ storeLog' = logged("addProduct", r.user, "created", Len(catalog) + 1)
              /\ storeReqs' = ended(r)
    /\ UNCHANGED storeCalls
    /\ UNCHANGED <<monitorVars, cronVars, httpVars, scraperVars, runVars, pure, retry, rateVars, tokenVars>>

\* importStoreListings up to its listings: store name, seller id, listings.
ImportBegin ==
    /\ storeCalls < MaxStoreRequests
    /\ storeCalls' = storeCalls + 1
    /\ \E user \in Tenants, found \in {"none", "seller_1"}, listings \in StoreListings :
          LET seller == resolveSellerId(TRUE, found, "none")
              log == logged("importStoreListings", user, seller.outcome, Len(catalog))
          IN  IF seller.outcome # "resolved"
              THEN /\ storeLog' = log
                   /\ UNCHANGED <<catalog, storeReqs>>
              ELSE IF listings = << >>
              THEN /\ storeLog' = [log EXCEPT !.outcome = "failed_no_listings"]
                   /\ UNCHANGED <<catalog, storeReqs>>
              ELSE /\ storeReqs' = started(
                          [noStoreReq EXCEPT !.kind = "importStoreListings", !.user = user,
                                             !.pc = "find", !.items = listings])
                   /\ UNCHANGED <<catalog, storeLog>>
    /\ UNCHANGED <<monitorVars, cronVars, httpVars, scraperVars, runVars, pure, retry, rateVars, tokenVars>>

\* The loop of importStoreListings reads: Product.findOne for the next listing.
ImportFind ==
    /\ \E r \in BagToSet(storeReqs) :
              /\ r.kind = "importStoreListings" /\ r.pc = "find"
              /\ storeReqs' = movedOn(r,
                     [r EXCEPT !.pc = "write",
                               !.existing = findOne(catalog, r.user, Head(r.items)) # 0])
    /\ UNCHANGED <<catalog, storeLog>>
    /\ UNCHANGED storeCalls
    /\ UNCHANGED <<monitorVars, cronVars, httpVars, scraperVars, runVars, pure, retry, rateVars, tokenVars>>

\* The loop of importStoreListings writes: existing.save() for a product that was
\* found, Product.create for one that was not; an error is caught per listing and
\* the listing counted as skipped.  After the last listing the import returns.
ImportWrite ==
    /\ \E r \in BagToSet(storeReqs) :
          LET itemId == Head(r.items)
              rest == [r EXCEPT !.pc = "find", !.items = Tail(r.items), !.existing = FALSE]
          IN  /\ r.kind = "importStoreListings" /\ r.pc = "write"
              /\ IF r.existing
                 THEN /\ storeLog' = logged("importStoreListings", r.user, "updated", Len(catalog))
                      /\ UNCHANGED catalog
                 ELSE IF duplicateKey(catalog, r.user, itemId, 0)
                 THEN /\ storeLog' = logged("importStoreListings", r.user, "duplicate_key",
                                            Len(catalog))
                      /\ UNCHANGED catalog
                 ELSE /\ catalog' = Append(catalog, [userId |-> r.user, ebayItemId |-> itemId])
                      /\ storeLog' = logged("importStoreListings", r.user, "created",
                                            Len(catalog) + 1)
              /\ storeReqs' = IF rest.items = << >> THEN ended(r) ELSE movedOn(r, rest)
    /\ UNCHANGED storeCalls
    /\ UNCHANGED <<monitorVars, cronVars, httpVars, scraperVars, runVars, pure, retry, rateVars, tokenVars>>

\* updateProduct up to product.save(): the product is looked up by _id and tenant
\* (404 when absent); a changed ebayUrl is itemFetched (an error is answered 500) and
\* gives the document the new item id.
UpdateProductFind ==
    /\ storeCalls < MaxStoreRequests
    /\ storeCalls' = storeCalls + 1
    /\ \E user \in Tenants, id \in 1..(Len(catalog) + 1),
          itemFetched \in EbayItemIds \cup {"none", "unchanged"} :
          IF id > Len(catalog) \/ (id <= Len(catalog) /\ catalog[id].userId # user)
          THEN /\ storeLog' = logged("updateProduct", user, "not_found", Len(catalog))
               /\ UNCHANGED <<catalog, storeReqs>>
          ELSE IF itemFetched = "none"
          THEN /\ storeLog' = logged("updateProduct", user, "fetch_failed", Len(catalog))
               /\ UNCHANGED <<catalog, storeReqs>>
          ELSE /\ storeReqs' = started(
                      [noStoreReq EXCEPT !.kind = "updateProduct", !.user = user,
                           !.pc = "save", !.target = id,
                           !.itemId = IF itemFetched = "unchanged"
                                      THEN catalog[id].ebayItemId ELSE itemFetched])
               /\ UNCHANGED <<catalog, storeLog>>
    /\ UNCHANGED <<monitorVars, cronVars, httpVars, scraperVars, runVars, pure, retry, rateVars, tokenVars>>

\* product.save() of updateProduct: the document's item id is written, or the
\* duplicate key error is answered with 500.
UpdateProductSave ==
    /\ \E r \in BagToSet(storeReqs) :
              /\ r.kind = "updateProduct"
              /\ IF duplicateKey(catalog, r.user, r.itemId, r.target)
                 THEN /\ storeLog' = logged("updateProduct", r.user, "duplicate_key", Len(catalog))
                      /\ UNCHANGED catalog
                 ELSE /\ catalog' = [catalog EXCEPT ![r.target].ebayItemId = r.itemId]
                      /\ storeLog' = logged("updateProduct", r.user, "updated", Len(catalog))
              /\ storeReqs' = ended(r)
    /\ UNCHANGED storeCalls
    /\ UNCHANGED <<monitorVars, cronVars, httpVars, scraperVars, runVars, pure, retry, rateVars, tokenVars>>

\* Steps 1 to 3 of importStoreListings for one store URL and what the pages show.
ImportResolveSeller ==
    /\ pure = noCall
    /\ \E user \in Tenants, hasStoreName \in BOOLEAN, found \in StorefrontFinds,
          productPageFinds \in {"none", "seller_1", "slug"},
          listings \in StoreListings :
          pure' = [fn |-> "importStoreListings", user |-> user,
                   hasStoreName |-> hasStoreName, found |-> found,
                   productPageFinds |-> productPageFinds, listings |-> listings,
                   result |-> resolveSellerId(hasStoreName, found, productPageFinds)]
    /\ UNCHANGED <<monitorVars, cronVars, httpVars, scraperVars, storeVars, runVars, retry, rateVars, tokenVars>>

ImportSpec == TokenInit /\ [][ImportResolveSeller]_vars

\* C29: when seller-identity resolution from the storefront fails, the import
\* fails for lack of a seller identity only after getSellerIdFromProductPage has
\* been tried as well; it never goes on with the store slug or the platform brand.
C29_ProductPageTriedBeforeGivingUp ==
    (pure.fn = "importStoreListings" /\ pure.hasStoreName) =>
        /\ pure.result.outcome = "failed_seller" =>
              pure.result.calls = <<"getSellerIdFromScraping", "getSellerIdFromProductPage">>
        /\ pure.result.outcome = "resolved" =>
              pure.result.sellerID \notin {"none", "slug", "eBay", "eBay UK"}

StoreNext ==
    \/ AddProductFind
    \/ AddProductCreate
    \/ ImportBegin
    \/ ImportFind
    \/ ImportWrite
    \/ UpdateProductFind
    \/ UpdateProductSave

StoreSpec == TokenInit /\ [][StoreNext]_vars

\* C30: there is at most one product per (tenant, item id), and a request whose
\* write is refused or not attempted leaves the number of products unchanged.
C30_OneProductPerTenantAndItem ==
    /\ \A i, j \in 1..Len(catalog) :
          (catalog[i].userId = catalog[j].userId
              /\ catalog[i].ebayItemId = catalog[j].ebayItemId) => i = j
    /\ storeLog.outcome \in {"already_exists", "duplicate_key", "updated"} => ~storeLog.grew

\* Two requests for the same item both found no product; the first created it and
\* the second was refused by the index.
C30_Witness ==
    /\ storeLog.outcome = "duplicate_key"
    /\ storeLog.kind = "addProduct"
    /\ Len(catalog) = 1

-----------------------------------------------------------------------------
(* monitoringService.createAlert with its two transports, emailService
   .sendAlertEmail and webhookService.sendAlertWebhook, inside checkProduct. *)

WebhookUrls == {"none", "invalid", "valid"}
TransportOutcomes == {"ok", "fails"}

\* What one createAlert call meets: the tenant's Settings document (or none) with
\* its emailAlerts flag and webhookUrl, the User document (or none), whether
\* SMTP_USER is configured, and how the mail and the HTTP transports answer.
Deliveries ==
    [hasSettings : BOOLEAN, emailAlerts : BOOLEAN, webhookUrl : WebhookUrls,
     hasUser : BOOLEAN, smtpConfigured : BOOLEAN,
     email : TransportOutcomes, webhook : TransportOutcomes]

\* sendAlertEmail: false when SMTP is not configured; transporter.sendMail
\* rejecting is caught and gives false.
sendAlertEmail(smtpConfigured, transport) ==
    IF ~smtpConfigured THEN "false"
    ELSE IF transport = "fails" THEN "false"
    ELSE "true"

\* a webhook sender that lets the rejection of axios.post through
sendAlertWebhookRethrowing(url, transport) ==
    IF url = "none" \/ url = "invalid" THEN "false"
    ELSE IF transport = "fails" THEN "throws"
    ELSE "true"

\* sendAlertWebhook: false without a url or with one that new URL() refuses;
\* axios.post rejecting is caught and gives false.
sendAlertWebhook(url, transport) ==
    IF url = "none" THEN "false"
    ELSE IF url = "invalid" THEN "false"
    ELSE IF transport = "fails" THEN "false"
    ELSE "true"

\* createAlert after Alert.create: the email when settings.emailAlerts and the
\* user exist, then the webhook when settings.webhookUrl is set.  An exception
\* inside is caught by createAlert, which then returns null; the Alert document
\* was created before and stays.
emitAlert(d) ==
    LET emailCalled == d.hasSettings /\ d.emailAlerts /\ d.hasUser
        emailResult == IF emailCalled THEN sendAlertEmail(d.smtpConfigured, d.email)
                       ELSE "not_called"
        webhookCalled == emailResult # "throws" /\ d.hasSettings /\ d.webhookUrl # "none"
        webhookResult == IF webhookCalled THEN sendAlertWebhook(d.webhookUrl, d.webhook)
                         ELSE "not_called"
        thrown == emailResult = "throws" \/ webhookResult = "throws"
    IN  [persisted |-> TRUE,
         emailCalled |-> emailCalled,
         emailSent |-> emailResult = "true",
         webhookCalled |-> webhookCalled,
         webhookPosted |-> webhookResult = "true",
         returned |-> IF thrown THEN "null" ELSE "alert"]

\* The fetches of the checkProduct calls that emit alerts.
AlertSnapshots ==
    {snapshot(fetched(116, "in_stock"), fetched(100, "in_stock"), noInsights),
     snapshot(fetched(116, "out_of_stock"), fetched(110, "out_of_stock"), insights(90)),
     snapshot(fetched(100, "in_stock"), fetchFailed, insights(90)),
     snapshot(fetchFailed, fetched(116, "in_stock"), noInsights)}

\* One checkProduct(product, settings) call whose createAlert calls all meet the
\* same delivery conditions.  createAlert never rejects, so checkProduct runs as
\* without transports; each Alert document carries what its emission did.
CheckProductEmitting ==
    /\ pure = noCall
    /\ \E d \in Deliveries, snap \in AlertSnapshots :
          LET product == productDoc("u1", TRUE, 100, "in_stock", TRUE, 100, "in_stock", 1)
              out == checkProductOutcome("p1", product, defaultSettings,
                                         [snap |-> snap, saveFails |-> FALSE], now)
          IN  pure' = [fn |-> "checkProduct", delivery |-> d, snap |-> snap,
                       before |-> product, at |-> now,
                       emissions |-> [i \in 1..Len(out.alerts) |-> emitAlert(d)],
                       result |-> out]
    /\ UNCHANGED <<monitorVars, cronVars, httpVars, scraperVars, storeVars, runVars, retry, rateVars, tokenVars>>

AlertSpec == TokenInit /\ [][CheckProductEmitting]_vars

\* An alert was emitted while the mail or the HTTP transport was failing.
transportFailed ==
    /\ pure.fn = "checkProduct"
    /\ Len(pure.result.alerts) > 0
    /\ \/ pure.emissions[1].emailCalled /\ pure.delivery.smtpConfigured
              /\ pure.delivery.email = "fails"
       \/ pure.emissions[1].webhookCalled /\ pure.delivery.webhookUrl = "valid"
              /\ pure.delivery.webhook = "fails"

\* C31: a failure of the email or webhook transport while an alert is emitted is
\* not fatal: createAlert completes with its Alert document persisted and still
\* calls the webhook after a failed email, and checkProduct goes through all its
\* sources, saves the product and reports success.
C31_TransportFailureIsNotFatal ==
    transportFailed =>
        /\ \A i \in 1..Len(pure.emissions) :
              /\ pure.emissions[i].persisted
              /\ pure.emissions[i].returned = "alert"
              /\ (pure.delivery.hasSettings /\ pure.delivery.webhookUrl # "none")
                     => pure.emissions[i].webhookCalled
        /\ pure.result.success
        /\ pure.result.product.lastCheckedAt = pure.at
        /\ pure.snap.ebay.ok =>
              /\ pure.result.product.ebayPrice = pure.snap.ebay.price
              /\ \E h \in 1..Len(pure.result.history) : pure.result.history[h].source = "ebay"
        /\ pure.snap.supplier.ok =>
              /\ pure.result.product.supplierPrice = pure.snap.supplier.price
              /\ \E h \in 1..Len(pure.result.history) : pure.result.history[h].source = "supplier"
        /\ pure.snap.competitor.ok =>
              \E h \in 1..Len(pure.result.history) : pure.result.history[h].source = "competitor"

\* Both transports fail for the alerts of a check whose three sources answer.
C31_Witness ==
    /\ transportFailed
    /\ pure.emissions[1].emailCalled /\ pure.delivery.email = "fails"
    /\ pure.emissions[1].webhookCalled /\ pure.delivery.webhook = "fails"
    /\ pure.delivery.webhookUrl = "valid" /\ pure.delivery.smtpConfigured
    /\ Len(pure.result.alerts) >= 2
    /\ pure.snap.ebay.ok /\ pure.snap.supplier.ok /\ pure.snap.competitor.ok

-----------------------------------------------------------------------------
(* productController.addProduct: the checks on req.body before the fetch. *)

Hosts == {"www.ebay.com", "www.ebay.co.uk", "www.ebay.ca", "www.amazon.com", "www.notebay.com"}
Queries == {"none", "ref=ebay.com"}
SupplierUrlTexts == {"none", "invalid", "valid"}

\* The ebayUrl of a request body: absent, or a text that new URL() accepts or
\* refuses, with the host and query it shows and the shape of its path.
EbayUrlTexts ==
    {[present |-> FALSE, wellFormed |-> FALSE, host |-> "www.ebay.com", query |-> "none",
      shape |-> "other"]}
    \cup [present : {TRUE}, wellFormed : BOOLEAN, host : Hosts, query : Queries,
          shape : UrlShapes]

\* the host is eBay's .com, .co.uk or .ca site
onEbayDomain(url) == url.host \in {"www.ebay.com", "www.ebay.co.uk", "www.ebay.ca"}

\* ebayUrl.includes(needle): the needle anywhere in the text
includes(url, needle) ==
    \/ needle = "ebay.com" /\ url.host \in {"www.ebay.com", "www.notebay.com"}
    \/ needle = "ebay.co.uk" /\ url.host = "www.ebay.co.uk"
    \/ needle = "ebay.ca" /\ url.host = "www.ebay.ca"
    \/ needle = "ebay.com" /\ url.query = "ref=ebay.com"

\* addProduct(req, res) for a tenant without the product: the status answered,
\* the fetchEbayItem calls made, the Product and PriceHistory documents created.
addProduct(ebayUrl, supplierUrl, upstream) ==
    LET answer(status, fetches, created, history) ==
            [status |-> status, fetches |-> fetches, products |-> created, history |-> history]
    IN  IF ~ebayUrl.present THEN answer(400, 0, 0, 0)
        ELSE IF ~ebayUrl.wellFormed THEN answer(400, 0, 0, 0)
        ELSE IF ~includes(ebayUrl, "ebay.com") /\ ~includes(ebayUrl, "ebay.co.uk")
                /\ ~includes(ebayUrl, "ebay.ca")
        THEN answer(400, 0, 0, 0)
        ELSE IF supplierUrl = "invalid" THEN answer(400, 0, 0, 0)
        ELSE IF upstream = "fails" THEN answer(400, 1, 0, 0)
        ELSE IF supplierUrl = "valid" THEN answer(201, 1, 1, 2)
        ELSE answer(201, 1, 1, 1)

AddProduct ==
    /\ pure = noCall
    /\ \E ebayUrl \in EbayUrlTexts, supplierUrl \in SupplierUrlTexts,
          upstream \in {"fails", "data"} :
          pure' = [fn |-> "addProduct", ebayUrl |-> ebayUrl, supplierUrl |-> supplierUrl,
                   upstream |-> upstream,
                   result |-> addProduct(ebayUrl, supplierUrl, upstream)]
    /\ UNCHANGED <<monitorVars, cronVars, httpVars, scraperVars, storeVars, runVars, retry, rateVars, tokenVars>>

AddSpec == TokenInit /\ [][AddProduct]_vars

\* C32: addProduct with an ebayUrl that is not a well-formed URL, or not on an
\* eBay domain, is answered 400 before any upstream fetch, and no product or
\* history entry is created.
C32_BadEbayUrlRejectedBeforeFetch ==
    (pure.fn = "addProduct" /\ pure.ebayUrl.present
        /\ (~pure.ebayUrl.wellFormed \/ ~onEbayDomain(pure.ebayUrl))) =>
        /\ pure.result.status = 400
        /\ pure.result.fetches = 0
        /\ pure.result.products = 0
        /\ pure.result.history = 0

-----------------------------------------------------------------------------
(* cronService.startCron at startup, with scheduling calls that can fail. *)

\* A suspended createUserCron call rejects: Settings.findOne or Settings.create
\* rejects, or cron.schedule throws on the expression.  The timer that the call
\* stopped and deleted before its await stays deleted.  initializeCronJobs has
\* no try inside its loop: the rejection leaves the loop for the catch around
\* it, and the users not yet reached are not scheduled.  restartUserCron
\* catches and logs; updateSettings then answers 200.
CreateUserCronRejects ==
    \E i \in 1..Len(pendingCron) :
        LET call == pendingCron[i]
        IN  /\ pendingCron' = removeAt(pendingCron, i)
            /\ IF call.caller = "initializeCronJobs"
               THEN initQueue' = << >> /\ initPhase' = "idle"
               ELSE UNCHANGED <<initPhase, initQueue>>
            /\ response' = IF call.caller = "updateSettings"
                           THEN [status |-> 200, user |-> call.key.user, body |-> call.body]
                           ELSE response
            /\ UNCHANGED <<userCronJobs, timers>>
            /\ UNCHANGED <<monitorVars, libVars, requests>>

\* startCron() when the process starts: no timer exists yet.
StartCronAtStartup == timers = << >> /\ StartCron

StartupNext ==
    \/ StartCronAtStartup
    \/ InitializeFound
    \/ InitializeNext
    \/ CreateUserCronResume
    \/ CreateUserCronRejects
    \/ InitializeDone

\* The process starts: each tenant has a Settings document or none.
StartupInit ==
    /\ products = [pid \in {"p1"} |-> productDoc("u1", TRUE, 100, "in_stock", FALSE, 0, "unknown", 1)]
    /\ \E s1, s2 \in {noSettings, settingsDoc(15, 5, allAlertTypes(TRUE)),
                       settingsDoc(90, 5, allAlertTypes(TRUE))} :
          settings = [u \in Tenants |-> IF u = "u1" THEN s1 ELSE s2]
    /\ newAlerts = << >>
    /\ newHistory = << >>
    /\ now = 1
    /\ run = noRun
    /\ unavailStreak = [pid \in {"p1"} |-> 0]
    /\ cycle = noCycle
    /\ cronIdle
    /\ libIdle
    /\ httpIdle

StartupSpec == StartupInit /\ [][StartupNext]_vars

\* The running timers that the registry holds for a tenant.
scheduledTimers(jobs, ts, u) ==
    {jobs[key] : key \in {k \in CronKeys : k.user = u /\ hasCron(jobs, k)}}
        \cap {i \in 1..Len(ts) : ts[i].user = u /\ ts[i].running}

\* C33: when the initialization of startCron completes, every user has settings
\* and exactly one running timer in the registry, also when the scheduling of a
\* user before it failed.
C33_StartupSchedulesEveryUser ==
    [][(initPhase = "loop" /\ initPhase' = "idle") =>
          \A u \in Tenants :
              /\ settings'[u].exists
              /\ Cardinality(scheduledTimers(userCronJobs', timers', u)) = 1]_vars

\* The registry is empty and no timer is running.
allStopped(jobs, ts) ==
    /\ \A key \in CronKeys : ~hasCron(jobs, key)
    /\ \A i \in 1..Len(ts) : ~ts[i].running

\* Scheduling calls made before stopCron is called.
ScheduleBeforeStop == pure = noCall /\ (RestartUserCron \/ StartCron)

\* stopCron() runs and returns; createUserCron calls may be suspended at their
\* settings lookup and initializeCronJobs may be inside its loop.
StopCronReturns ==
    /\ pure = noCall
    /\ timers' = stopTimers(timers, {userCronJobs[key] : key \in CronKeys})
    /\ userCronJobs' = [key \in CronKeys |-> 0]
    /\ pure' = [fn |-> "stopCron", suspended |-> Len(pendingCron), initPhase |-> initPhase]
    /\ UNCHANGED <<pendingCron, initPhase, initQueue>>
    /\ UNCHANGED <<monitorVars, httpVars, retry, rateVars, tokenVars, scraperVars, storeVars, runVars>>

\* After stopCron no scheduling call is made; the calls under way go on.
StopNext ==
    \/ ScheduleBeforeStop
    \/ StopCronReturns
    \/ CreateUserCronResume
    \/ InitializeFound
    \/ InitializeNext
    \/ InitializeDone

StopSpec == CronInit /\ [][StopNext]_vars

\* C34: once stopCron has returned, and as long as no scheduling call is made,
\* the registry is empty and no timer runs, also when a createUserCron call was
\* suspended at its settings lookup while stopCron ran.
C34_StoppedUntilTheNextSchedulingCall ==
    pure.fn = "stopCron" => allStopped(userCronJobs, timers)

-----------------------------------------------------------------------------
(* puppeteerScraper.getBrowser and closeBrowser: the shared browser. *)

MaxBrowserCalls == 4

\* getBrowser() by an extraction.  With a browserInstance the call returns it and
\* the extraction opens its page on it.  With none the call invokes
\* puppeteer.launch and suspends at the await.
GetBrowser ==
    /\ browserOps.calls < MaxBrowserCalls
    /\ browserOps' = [browserOps EXCEPT !.calls = @ + 1]
    /\ IF browserInstance # 0
       THEN /\ browsers' = [browsers EXCEPT ![browserInstance].pages = @ + 1]
            /\ UNCHANGED <<browserInstance, launches>>
       ELSE /\ launches' = Append(launches, browserOps.closed)
            /\ UNCHANGED <<browserInstance, browsers>>
    /\ UNCHANGED <<scrape, openPages>>
    /\ UNCHANGED <<monitorVars, cronVars, httpVars, storeVars, runVars, pure, retry, rateVars, tokenVars>>

\* puppeteer.launch resolves for a suspended call: the new browser is assigned to
\* browserInstance and returned, and the extraction opens its page on it.
\* launchedAfter is the number of closeBrowser calls that had returned when
\* puppeteer.launch was invoked.
LaunchResolves ==
    /\ \E i \in 1..Len(launches) :
          /\ launches' = removeAt(launches, i)
          /\ browsers' = Append(browsers, [open |-> TRUE, pages |-> 1,
                                           launchedAfter |-> launches[i]])
    /\ browserInstance' = Len(browsers) + 1
    /\ UNCHANGED <<scrape, openPages, browserOps>>
    /\ UNCHANGED <<monitorVars, cronVars, httpVars, storeVars, runVars, pure, retry, rateVars, tokenVars>>

\* closeBrowser() up to its await: nothing to do without a browserInstance;
\* otherwise browserInstance.close() is invoked.
CloseBrowserBegin ==
    /\ browserOps.calls < MaxBrowserCalls
    /\ IF browserInstance = 0
       THEN /\ browserOps' = [browserOps EXCEPT !.calls = @ + 1, !.closed = @ + 1]
            /\ UNCHANGED browsers
       ELSE /\ browserOps' = [browserOps EXCEPT !.calls = @ + 1, !.closing = @ + 1]
            /\ browsers' = [browsers EXCEPT ![browserInstance].open = FALSE]
    /\ UNCHANGED <<scrape, openPages, browserInstance, launches>>
    /\ UNCHANGED <<monitorVars, cronVars, httpVars, storeVars, runVars, pure, retry, rateVars, tokenVars>>

\* close() resolves: browserInstance = null, whatever it holds by now.
CloseBrowserEnd ==
    /\ browserOps.closing > 0
    /\ browserOps' = [browserOps EXCEPT !.closing = @ - 1, !.closed = @ + 1]
    /\ browserInstance' = 0
    /\ UNCHANGED <<scrape, openPages, browsers, launches>>
    /\ UNCHANGED <<monitorVars, cronVars, httpVars, storeVars, runVars, pure, retry, rateVars, tokenVars>>

BrowserNext ==
    \/ GetBrowser
    \/ LaunchResolves
    \/ CloseBrowserBegin
    \/ CloseBrowserEnd

BrowserSpec == CronInit /\ [][BrowserNext]_vars

\* C35: between two closeBrowser calls at most one browser is launched, also when
\* several extractions call getBrowser while there is none: no two browsers were
\* launched after the same number of closeBrowser calls.
C35_OneBrowserBetweenCloses ==
    \A i, j \in 1..Len(browsers) :
        browsers[i].launchedAfter = browsers[j].launchedAfter => i = j

-----------------------------------------------------------------------------
(* getEbayToken: calls that overlap. *)

\* C36: getEbayToken calls that start without a valid cached token each post
\* their own exchange; a call whose exchange succeeds receives the token that
\* its own exchange issued, and the cache then holds that token and its expiry;
\* nothing else changes the cache, so it holds the values of the exchange that
\* completed last.
C36_OwnTokenAndLastExchangeCached ==
    /\ [](tokenCall.how = "exchanged" =>
             /\ tokenCall.token = tokenCall.issued
             /\ cachedToken = tokenCall.issued
             /\ tokenExpiry = tokenCall.at + tokenCall.expiresIn * 1000 - SafetyMarginMs)
    /\ [][(cachedToken' # cachedToken \/ tokenExpiry' # tokenExpiry) =>
             /\ tokenCall'.how = "exchanged"
             /\ Len(exchanges') < Len(exchanges)]_vars

\* Two calls started at the same instant with an empty cache and each posted an
\* exchange; one has completed and stored its token, the other is still under way.
C36_Witness ==
    /\ tokenCall.how = "exchanged"
    /\ tokenCall.cachedAtCall = 0
    /\ cachedToken = tokenCall.issued
    /\ \E i \in 1..Len(exchanges) :
          /\ exchanges[i].cachedAtCall = 0
          /\ exchanges[i].calledAt = tokenCall.calledAt

-----------------------------------------------------------------------------
(* supplierAdapter.fetchGeneric (fetchAliExpress and fetchAmazon alike): one
   waitForRateLimit, then the HTTP request inside retryWithBackoff(fn, 3, 1000). *)

SupplierRetries == 3
SupplierBaseDelay == 1000

\* Milliseconds since the limiter's lastRequest when the call is made.
SinceLastRequest == {0, 500, 1500, 2000, 6000}

\* Milliseconds that a request takes to fail.
RequestDurations == {200, 1500}

\* waitForRateLimit: the instant at which it returns, for a call at instant t
\* with the limiter's lastRequest.
rateLimitedAt(t, lastRequest) ==
    IF t - lastRequest < RateLimitDelay THEN t + (RateLimitDelay - (t - lastRequest)) ELSE t

\* The instants of the requests of retryWithBackoff(fn, 3, 1000) entered at
\* instant t: an attempt that fails after its duration is followed, unless it is
\* the last, by the backoff delay and the next attempt.
RECURSIVE requestInstants(_, _, _, _)
requestInstants(attempt, t, fails, durations) ==
    IF ~fails[attempt + 1] \/ isLastAttempt(attempt, SupplierRetries)
    THEN <<t>>
    ELSE <<t>> \o requestInstants(attempt + 1,
                     t + durations[attempt + 1] + backoffDelay(SupplierBaseDelay, attempt),
                     fails, durations)

\* fetchGeneric(url) at RateStart: the instants of its HTTP requests, after the
\* request that stamped the limiter.
FetchGeneric ==
    /\ pure = noCall
    /\ \E since \in SinceLastRequest,
          fails \in [1..SupplierRetries -> BOOLEAN],
          durations \in [1..SupplierRetries -> RequestDurations] :
          LET lastRequest == RateStart - since
              permit == rateLimitedAt(RateStart, lastRequest)
          IN  pure' = [fn |-> "fetchGeneric", lastRequest |-> lastRequest,
                       fails |-> fails, durations |-> durations,
                       requests |-> <<lastRequest>>
                                     \o requestInstants(0, permit, fails, durations)]
    /\ UNCHANGED <<monitorVars, cronVars, httpVars, scraperVars, storeVars, runVars, retry, rateVars, tokenVars>>

SupplierSpec == TokenInit /\ [][FetchGeneric]_vars

\* C37: any two consecutive HTTP requests to the same supplier, the retry
\* attempts of one call included, are at least the rate-limit delay apart.
C37_ConsecutiveRequestsMinDelayApart ==
    pure.fn = "fetchGeneric" =>
        \A i \in 1..(Len(pure.requests) - 1) :
            pure.requests[i + 1] - pure.requests[i] >= RateLimitDelay

-----------------------------------------------------------------------------
(* Monitoring cycles that overlap *)

MaxMonitorRuns == 2              \* checkProductsForUser calls in flight at once

\* What the upstream sources return throughout: the marketplace price has moved once,
\* from the stored 100 to 106; a fetch may also fail.
UpstreamSnapshots ==
    { snapshot(fetched(106, "in_stock"), fetched(100, "in_stock"), noInsights),
      snapshot(fetchFailed, fetchFailed, noInsights) }

\* The documents Product.find({ userId, isActive: true }) hands to the loop: each is the
\* caller's own in-memory copy of the stored document.
loadedProducts(prods, u) ==
    LET pids == activeProductsOf(prods, u)
    IN  [i \in 1..Len(pids) |-> [pid |-> pids[i], doc |-> prods[pids[i]]]]

monitorRun(origin, startedAt, users, user, loaded) ==
    [origin |-> origin, started |-> startedAt, users |-> users, user |-> user,
     loaded |-> loaded, checking |-> FALSE]

OverlapInit ==
    /\ \E last1 \in {0, 1} :
          products = [pid \in {"p1", "p3"} |->
              IF pid = "p1" THEN productDoc("u1", TRUE, 100, "in_stock", FALSE, 0, "unknown", last1)
                            ELSE productDoc("u2", TRUE, 100, "in_stock", FALSE, 0, "unknown", 0)]
    /\ \E f1 \in {15, 30} :
          settings = [u \in Tenants |-> IF u = "u1" THEN settingsDoc(f1, 5, allAlertTypes(TRUE))
                                                    ELSE defaultSettings]
    /\ newAlerts = << >>
    /\ newHistory = << >>
    /\ now = 2
    /\ run = noRun
    /\ unavailStreak = [pid \in {"p1", "p3"} |-> 0]
    /\ cycle = noCycle
    /\ timers = [i \in 1..Len(userOrder) |->
                    [cronJob(userOrder[i], frequencyToCron(settings[userOrder[i]].monitoringFrequency))
                        EXCEPT !.running = TRUE]]
    /\ userCronJobs = [key \in CronKeys |->
                          IF key.ref = "a" THEN CHOOSE i \in 1..Len(userOrder) : userOrder[i] = key.user ELSE 0]
    /\ pendingCron = << >>
    /\ initPhase = "idle"
    /\ initQueue = << >>
    /\ libIdle
    /\ httpIdle

(***************************************************************************)
(* A started timer of tenant u fires, at most once per clock tick: the     *)
(* callback loads the user and the settings and enters                     *)
(* checkProductsForUser(user, userSettings), which loads the tenant's      *)
(* active products.  Nothing tells the callback that an earlier cycle of   *)
(* the tenant, or the startup check, is still under way.                   *)
(***************************************************************************)
TimerFires ==
    \E u \in {timers[i].user : i \in {j \in 1..Len(timers) : timers[j].running}} :
        /\ lastTrigger[u] < now
        /\ Cardinality(monitorRuns) < MaxMonitorRuns
        /\ lastTrigger' = [lastTrigger EXCEPT ![u] = now]
        /\ monitorRuns' = monitorRuns \cup
               {monitorRun(u, now, << >>, u, loadedProducts(products, u))}
        /\ UNCHANGED <<monitorVars, cronVars, httpVars, scraperVars, storeVars, pure, retry, rateVars, tokenVars>>

\* startCron's setTimeout callback, once: checkProductsForUser() with no argument
\* loads every user.
InitialCheck ==
    /\ lastTrigger["startup"] = 0
    /\ Cardinality(monitorRuns) < MaxMonitorRuns
    /\ lastTrigger' = [lastTrigger EXCEPT !["startup"] = now]
    /\ monitorRuns' = monitorRuns \cup {monitorRun("startup", now, userOrder, "none", << >>)}
    /\ UNCHANGED <<monitorVars, cronVars, httpVars, scraperVars, storeVars, pure, retry, rateVars, tokenVars>>

\* The user loop of a run: the next user's settings are taken (a user without settings
\* is passed over) and the user's active products loaded; a run with no user and no
\* document left returns.
NextUser ==
    \E r \in monitorRuns :
        /\ r.loaded = << >>
        /\ monitorRuns' =
               IF r.users = << >> THEN monitorRuns \ {r}
               ELSE LET u == Head(r.users)
                    IN  (monitorRuns \ {r}) \cup
                        {[r EXCEPT !.users = Tail(r.users), !.user = u,
                                   !.loaded = IF settings[u].exists THEN loadedProducts(products, u)
                                              ELSE << >>]}
        /\ UNCHANGED lastTrigger
        /\ UNCHANGED <<monitorVars, cronVars, httpVars, scraperVars, storeVars, pure, retry, rateVars, tokenVars>>

\* The product loop reaches its next document: when it is due by the copy the run
\* holds, checkProduct is entered and suspends at its first fetch; otherwise the
\* document is skipped.
EnterCheck ==
    \E r \in monitorRuns :
        /\ r.loaded # << >> /\ ~r.checking
        /\ monitorRuns' = (monitorRuns \ {r}) \cup
               {IF isDue(Head(r.loaded).doc, now, settings[r.user])
                THEN [r EXCEPT !.checking = TRUE]
                ELSE [r EXCEPT !.loaded = Tail(r.loaded)]}
        /\ UNCHANGED lastTrigger
        /\ UNCHANGED <<monitorVars, cronVars, httpVars, scraperVars, storeVars, pure, retry, rateVars, tokenVars>>

\* The fetches of a suspended checkProduct return and the call runs to its end: the old
\* values are those of the run's copy, the alerts and history entries are created, the
\* copy is saved over the stored document, and after the delay the loop moves on.
LeaveCheck ==
    \E r \in monitorRuns, snap \in UpstreamSnapshots :
        /\ r.checking
        /\ LET pid == Head(r.loaded).pid
               product == Head(r.loaded).doc
               out == checkProductOutcome(pid, product, settings[r.user],
                                          [snap |-> snap, saveFails |-> FALSE], now)
           IN  /\ products' = [products EXCEPT ![pid] = out.product]
               /\ newAlerts' = out.alerts
               /\ newHistory' = out.history
        /\ monitorRuns' = (monitorRuns \ {r}) \cup
               {[r EXCEPT !.loaded = Tail(r.loaded), !.checking = FALSE]}
        /\ UNCHANGED <<settings, now, run, unavailStreak, cycle, lastTrigger>>
        /\ UNCHANGED <<cronVars, httpVars, scraperVars, storeVars, pure, retry, rateVars, tokenVars>>

OverlapNext == TimerFires \/ InitialCheck \/ NextUser \/ EnterCheck \/ LeaveCheck \/ Tick

OverlapSpec == OverlapInit /\ [][OverlapNext]_vars

\* The runs that are inside checkProduct for pid.
checkingNow(pid) == {r \in monitorRuns : r.checking /\ Head(r.loaded).pid = pid}

\* C38: the same product is never inside two checkProduct runs at once, whatever the
\* overlap between a tenant's timer triggers, the startup check of all users and the
\* other tenants' triggers.
C38_OneCheckPerProductAtATime ==
    \A pid \in DOMAIN products : Cardinality(checkingNow(pid)) <= 1

-----------------------------------------------------------------------------
(* Consecutive triggers of one tenant's timer, in milliseconds *)

Triggers == 3                    \* consecutive triggers followed

\* Monitoring frequencies, in minutes, whose cron expression fires exactly that often.
RegularFrequencies == {15, 30, 60, 120}

\* Milliseconds from a trigger to the loop's `const now = Date.now()` for the product:
\* the callback's and the cycle's database reads.
LoopLatencies == {5, 40}

\* Milliseconds checkProduct takes from its start to `product.lastCheckedAt = Date.now()`:
\* its fetches and the documents it creates.
CheckDurations == {20, 300, 2500}

\* What one trigger meets.
TriggerInputs == [latency : LoopLatencies, duration : CheckDurations, ebayOk : BOOLEAN]

\* The time between two firings of a schedule whose step divides its unit's range.
timerPeriodMs(cronExpression) ==
    CASE cronExpression.every = "minutes" -> cronExpression.step * 60 * 1000
      [] cronExpression.every = "hours" -> cronExpression.step * 60 * 60 * 1000
      [] cronExpression.every = "day" -> 24 * 60 * 60 * 1000

\* timeSinceLastCheck >= frequencyMs || lastChecked === 0, all in milliseconds
isDueAtMs(product, t, s) ==
    LET lastChecked == product.lastCheckedAt
        timeSinceLastCheck == t - lastChecked
    IN  timeSinceLastCheck >= frequencyMs(s) \/ lastChecked = 0

(***************************************************************************)
(* The tenant's cycles at the triggers t, t + period, ... for its one      *)
(* product: each cycle reads the clock after its latency, checks the       *)
(* product when it is due, and checkProduct stamps lastCheckedAt with the  *)
(* clock at its save.  Returns one entry per trigger.                      *)
(***************************************************************************)
RECURSIVE triggerLog(_, _, _, _)
triggerLog(inputs, t, product, s) ==
    IF inputs = << >> THEN << >>
    ELSE LET in == Head(inputs)
             evalAt == t + in.latency
             due == isDueAtMs(product, evalAt, s)
             snap == snapshot(IF in.ebayOk THEN fetched(100, "in_stock") ELSE fetchFailed,
                              fetchFailed, noInsights)
             out == checkProductOutcome("p1", product, s, [snap |-> snap, saveFails |-> FALSE],
                                        evalAt + in.duration)
             after == IF due THEN out.product ELSE product
         IN  << [at |-> t, evalAt |-> evalAt, checked |-> due, success |-> due /\ out.success,
                 lastCheckedAt |-> after.lastCheckedAt] >>
             \o triggerLog(Tail(inputs), t + timerPeriodMs(frequencyToCron(s.monitoringFrequency)),
                           after, s)

\* The timer of a tenant with a regular frequency fires Triggers times in a row.
TimerTriggersInARow ==
    /\ pure = noCall
    /\ \E f \in RegularFrequencies, k \in 1..2, inputs \in [1..Triggers -> TriggerInputs] :
          LET s == settingsDoc(f, 5, allAlertTypes(TRUE))
              period == timerPeriodMs(frequencyToCron(f))
              product == productDoc("u1", TRUE, 100, "in_stock", FALSE, 0, "unknown", 0)
          IN  /\ period = frequencyMs(s)
              /\ pure' = [fn |-> "checkProductsForUser", frequency |-> f, period |-> period,
                          log |-> triggerLog(inputs, k * period, product, s)]
    /\ UNCHANGED <<monitorVars, cronVars, httpVars, scraperVars, storeVars, runVars, retry, rateVars, tokenVars>>

TriggerSpec == TokenInit /\ [][TimerTriggersInARow]_vars

\* C39: for a tenant whose timer period equals its monitoring frequency F, a product
\* checked successfully during the trigger at time T is due, and checked again, at the
\* next trigger at time T + F.
C39_CheckedAgainAtTheNextTrigger ==
    pure.fn = "checkProductsForUser" =>
        \A i \in 1..(Len(pure.log) - 1) :
            (pure.log[i].checked /\ pure.log[i].success /\ pure.log[i + 1].at = pure.log[i].at + pure.period)
                => pure.log[i + 1].checked

-----------------------------------------------------------------------------
(* The browsers of seller-identity resolution *)

StepOutcomes == {"ok", "throws"}
LinkOutcomes == {"some", "none", "throws"}
SellerIdOutcomes == {"seller_1", "none", "throws"}

\* What one getSellerIdFromScraping call meets: puppeteer.launch, browser.newPage and
\* the page set-up, the navigation to the storefront (throws when its three attempts
\* all fail), the link extraction, the same for the paginated URL, the navigation to
\* the first product and the extraction of the seller id.
ScrapingInputs ==
    [launch : StepOutcomes, newPage : StepOutcomes, storefront : StepOutcomes,
     links : LinkOutcomes, paginated : StepOutcomes, pagedLinks : LinkOutcomes,
     product : StepOutcomes, sellerId : SellerIdOutcomes]

leftAt(step, launched, closed, outcome) ==
    [step |-> step, launched |-> launched, closed |-> closed, outcome |-> outcome]

\* getSellerIdFromScraping: where the call leaves, whether it launched a browser and
\* whether it closed it.  Whatever throws inside the try block reaches the catch, which
\* logs and rethrows.
getSellerIdFromScrapingRun(in) ==
    IF in.launch = "throws" THEN leftAt("launch", FALSE, FALSE, "throw")
    ELSE IF in.newPage = "throws" THEN leftAt("newPage", TRUE, FALSE, "throw")
    ELSE IF in.storefront = "throws" THEN leftAt("goto storefront", TRUE, FALSE, "throw")
    ELSE IF in.links = "throws" THEN leftAt("evaluate links", TRUE, FALSE, "throw")
    ELSE IF in.links = "none" /\ in.paginated = "throws" THEN leftAt("goto paginated", TRUE, FALSE, "throw")
    ELSE IF in.links = "none" /\ in.pagedLinks = "throws" THEN leftAt("evaluate paged links", TRUE, FALSE, "throw")
    ELSE IF in.links = "none" /\ in.pagedLinks = "none" THEN leftAt("no links", TRUE, TRUE, "throw")
    ELSE IF in.product = "throws" THEN leftAt("goto product", TRUE, FALSE, "throw")
    ELSE IF in.sellerId = "throws" THEN leftAt("evaluate sellerId", TRUE, FALSE, "throw")
    ELSE IF in.sellerId = "none" THEN leftAt("invalid sellerId", TRUE, TRUE, "throw")
    ELSE leftAt("return", TRUE, TRUE, in.sellerId)

\* What one getSellerIdFromProductPage call meets: as above up to the storefront, the
\* search for an item link, the search for category links and for an item link on a
\* category page (a category page that fails is passed over), and
\* extractSellerIdFromProductPage on the item found.
ProductPageInputs ==
    [launch : StepOutcomes, newPage : StepOutcomes, storefront : StepOutcomes,
     links : LinkOutcomes, categories : LinkOutcomes, categoryLinks : LinkOutcomes,
     sellerId : SellerIdOutcomes]

\* getSellerIdFromProductPage: whatever throws inside the try block reaches the catch,
\* which logs and returns null.
getSellerIdFromProductPageRun(in) ==
    IF in.launch = "throws" THEN leftAt("launch", FALSE, FALSE, "none")
    ELSE IF in.newPage = "throws" THEN leftAt("newPage", TRUE, FALSE, "none")
    ELSE IF in.storefront = "throws" THEN leftAt("goto storefront", TRUE, FALSE, "none")
    ELSE IF in.links = "throws" THEN leftAt("evaluate links", TRUE, FALSE, "none")
    ELSE IF in.links = "none" /\ in.categories = "throws" THEN leftAt("evaluate categories", TRUE, FALSE, "none")
    ELSE IF in.links = "none" /\ (in.categories = "none" \/ in.categoryLinks # "some")
    THEN leftAt("no links", TRUE, TRUE, "none")
    ELSE IF in.sellerId = "throws" THEN leftAt("extractSellerIdFromProductPage", TRUE, TRUE, "none")
    ELSE leftAt("return", TRUE, TRUE, in.sellerId)

GetSellerIdFromScraping ==
    /\ pure = noCall
    /\ \E in \in ScrapingInputs :
          pure' = [fn |-> "getSellerIdFromScraping", in |-> in, left |-> getSellerIdFromScrapingRun(in)]
    /\ UNCHANGED <<monitorVars, cronVars, httpVars, scraperVars, storeVars, runVars, retry, rateVars, tokenVars>>

GetSellerIdFromProductPage ==
    /\ pure = noCall
    /\ \E in \in ProductPageInputs :
          pure' = [fn |-> "getSellerIdFromProductPage", in |-> in, left |-> getSellerIdFromProductPageRun(in)]
    /\ UNCHANGED <<monitorVars, cronVars, httpVars, scraperVars, storeVars, runVars, retry, rateVars, tokenVars>>

SellerBrowserNext == GetSellerIdFromScraping \/ GetSellerIdFromProductPage

SellerBrowserSpec == TokenInit /\ [][SellerBrowserNext]_vars

\* C40: every browser that getSellerIdFromScraping or getSellerIdFromProductPage
\* launches is closed on every exit path of the function, also when a navigation or a
\* page evaluation throws.
C40_LaunchedBrowserClosedOnEveryExit ==
    pure.fn \in {"getSellerIdFromScraping", "getSellerIdFromProductPage"} =>
        (pure.left.launched => pure.left.closed)

====
